---- MODULE Spec2Model ----
(***************************************************************************)
(* DiskSizer: the adaptive directory scanner (Utils/scan.go), the          *)
(* directory cache (Cache) and the scan session of the tree view (app).    *)
(*                                                                         *)
(* Spec     one top-level ScanDir call over a file system; every directory *)
(*          that is entered owns a frame (its invocation of one of the     *)
(*          three scanners), worker goroutines are steps of that frame.    *)
(* SpecApp  the tree view's session: addChildren, cancelScan, clearCache,  *)
(*          the scan goroutine with CachedScanDir, the cache.              *)
(***************************************************************************)
EXTENDS Integers, Sequences, FiniteSets, TLC

(* ------------------------------------------------------------------ *)
(* Bounds of the model                                                 *)
(* ------------------------------------------------------------------ *)

\* runtime.NumCPU() of the machine the scans and the session run on
NumCPU == 1

\* the largest CPU count of the machines the worker pool is sized for
MaxCPU == 13

\* the largest number of sampled entries that are not small files
OddMax == 6

\* number of directory identifiers a file system of the model may use
MaxDirs == 3

DirIds == 1..MaxDirs

\* largest number of large files in a listing of 101 files
LargeMax == 27

\* largest currentDepth a ScanDir call is made with
DepthMax == 3

\* largest maxDepth a ScanDir call is made with
MaxDepthMax == 2

(* ------------------------------------------------------------------ *)
(* Program constants                                                   *)
(* ------------------------------------------------------------------ *)

BatchSize == 200

IsSmallFileThreshold == 32 * 1024

(* ------------------------------------------------------------------ *)
(* The file system under the scanner.                                  *)
(* An entry is what a listing yields plus what Lstat reports for it:   *)
(*   kind  "file" | "dir" | "symlink"                                  *)
(*   size  the size Lstat reports (for a directory, its own size)      *)
(*   lstat "ok"   every Lstat of the entry succeeds                    *)
(*         "err"  every Lstat of the entry fails                       *)
(*         "gone" the parent's Lstat succeeds, then the entry vanishes *)
(*                and the Lstat at the top of its own ScanDir fails    *)
(*   dir   identifier of the directory (kind "dir"), or the directory  *)
(*         a symlink points to (0: it points to a file)                *)
(* ------------------------------------------------------------------ *)

File(n, s) == [name |-> n, kind |-> "file", size |-> s, lstat |-> "ok", dir |-> 0]

Dir(n, s, d) == [name |-> n, kind |-> "dir", size |-> s, lstat |-> "ok", dir |-> d]

Symlink(n, s, t) == [name |-> n, kind |-> "symlink", size |-> s, lstat |-> "ok", dir |-> t]

Failing(e, how) == [e EXCEPT !.lstat = how]

Listing(es) == [readdir |-> "ok", entries |-> es]

Unreadable == [readdir |-> "err", entries |-> <<>>]

MkFS(r, ds) ==
  [root |-> r,
   dirs |-> [d \in DirIds |-> IF d \in DOMAIN ds THEN ds[d] ELSE Listing(<<>>)]]

\* /root: a (10000), b (5000), c/ holding d (20000)
FS_E2E ==
  MkFS(Dir("root", 4096, 1),
       <<Listing(<<File("a", 10000), File("b", 5000), Dir("c", 4096, 2)>>),
         Listing(<<File("d", 20000)>>)>>)

\* one file whose scan fails after a stat that reported 4096, one file of 1000
FS_Skip ==
  MkFS(Dir("root", 4096, 1),
       <<Listing(<<Failing(File("x", 4096), "gone"), File("y", 1000)>>)>>)

\* a small directory: a symlink to the directory itself, a symlink to a
\* large file, an entry that cannot be stat'd, an unlistable subdirectory
FS_Seq ==
  MkFS(Dir("root", 4096, 1),
       <<Listing(<<File("s", 30), Symlink("loop", 4, 1), Symlink("big", 9, 0),
                   Failing(File("e", 70), "err")>>),
         Unreadable>>)

\* an unlistable directory below a listable one
FS_Unlistable ==
  MkFS(Dir("root", 4096, 1),
       <<Listing(<<File("k", 500), Dir("u", 4096, 2), File("m", 700)>>),
         Unreadable>>)

\* the requested path itself: a plain file, a path that cannot be stat'd,
\* a directory that cannot be listed
\* six entries (the parallel scanner): files, a subdirectory whose total ties
\* with a file, a symlink to the directory itself, a file that vanishes
FS_Par ==
  MkFS(Dir("root", 4096, 1),
       <<Listing(<<File("p1", 100), Dir("sub", 4096, 2), File("p2", 300),
                   Symlink("lnk", 4, 1), File("p3", 200),
                   Failing(File("g", 50), "gone")>>),
         Listing(<<File("q1", 150), File("q2", 150)>>)>>)

\* 101 entries, small files of pairwise different sizes in all sampled
\* places (the batched scanner); beside them a subdirectory, a symlink to the
\* directory itself, a symlink to a large file, a file that cannot be
\* stat'd, an unlistable subdirectory and a subdirectory that vanishes
SmallEntry(k) ==
  CASE k = 2 -> Dir("d2", 4096, 2)
    [] k = 3 -> Symlink("loop", 4, 1)
    [] k = 4 -> Failing(File("e4", 400), "err")
    [] k = 5 -> Dir("u5", 4096, 3)
    [] k = 7 -> Symlink("big", 9, 0)
    [] k = 8 -> Failing(Dir("g8", 4096, 2), "gone")
    [] OTHER -> File("f" \o ToString(k), 1000 + k)

FS_Small ==
  MkFS(Dir("root", 4096, 1),
       <<Listing([k \in 1..101 |-> SmallEntry(k)]),
         Listing(<<File("h1", 7), File("h2", 9)>>),
         Unreadable>>)

\* n entries that are not directories and two subdirectories, the
\* subdirectories in places the classifier does not sample: small files of
\* pairwise different sizes, among them a symlink and a file that cannot be
\* stat'd; every subdirectory holds one file
BatchedEntry(k) ==
  CASE k = 2 -> Dir("d2", 4096, 2)
    [] k = 3 -> Dir("d3", 4096, 3)
    [] k = 4 -> Symlink("lnk", 9, 0)
    [] k = 5 -> Failing(File("e", 400), "err")
    [] OTHER -> File("f" \o ToString(k), 1000 + k)

FS_Batched(n) ==
  MkFS(Dir("root", 4096, 1),
       <<Listing([k \in 1..(n + 2) |-> BatchedEntry(k)]),
         Listing(<<File("h", 12)>>),
         Listing(<<File("h", 13)>>)>>)

\* no failures, symlinks in every directory: to the directory itself, to a
\* large file, to an ancestor; one tree per scanner of the root
FS_SeqLinks ==
  MkFS(Dir("root", 4096, 1),
       <<Listing(<<File("s", 30), Symlink("loop", 4, 1), Symlink("big", 9, 0),
                   Dir("c", 4096, 2)>>),
         Listing(<<File("t", 5), Symlink("up", 2, 1)>>)>>)

FS_ParLinks ==
  MkFS(Dir("root", 4096, 1),
       <<Listing(<<File("p1", 100), Symlink("loop", 4, 1), File("p2", 300),
                   Dir("sub", 4096, 2), Symlink("big", 9, 0), File("p3", 200)>>),
         Listing(<<File("q1", 150), Symlink("up", 2, 1)>>)>>)

SmallLinksEntry(k) ==
  CASE k = 2 -> Dir("d2", 4096, 2)
    [] k = 3 -> Symlink("loop", 4, 1)
    [] k = 7 -> Symlink("big", 9, 0)
    [] OTHER -> File("f" \o ToString(k), 1000 + k)

FS_SmallLinks ==
  MkFS(Dir("root", 4096, 1),
       <<Listing([k \in 1..101 |-> SmallLinksEntry(k)]),
         Listing(<<File("h1", 7), Symlink("up", 2, 1)>>)>>)

FS_RootFile == MkFS(File("f", 1234), <<>>)

\* three levels: /root holds a and sub/, sub/ holds b and subsub/, which
\* holds c and d
FS_Deep ==
  MkFS(Dir("root", 4096, 1),
       <<Listing(<<File("a", 100), Dir("sub", 4096, 2)>>),
         Listing(<<Dir("subsub", 4096, 3), File("b", 200)>>),
         Listing(<<File("c", 400), File("d", 50)>>)>>)

\* three levels, five entries at the second (the parallel scanner below a
\* sequential one)
FS_DeepWide ==
  MkFS(Dir("root", 4096, 1),
       <<Listing(<<Dir("sub", 4096, 2), File("a", 10)>>),
         Listing(<<File("b1", 200), Dir("subsub", 4096, 3), File("b2", 20),
                   File("b3", 30), File("b4", 40)>>),
         Listing(<<File("c", 400)>>)>>)

\* a pool inside a pool: five entries, one of them a directory of five
\* entries; the other entries are symlinks, which get no work item, and in
\* the inner directory two files, one of which vanishes
FS_Nested ==
  MkFS(Dir("root", 4096, 1),
       <<Listing(<<Symlink("l1", 1, 0), Dir("in", 4096, 2), Symlink("l2", 2, 0),
                   Symlink("l3", 3, 1), File("n", 40)>>),
         Listing(<<File("m1", 7), Symlink("k1", 1, 0), Failing(File("m2", 3), "gone"),
                   Symlink("k2", 2, 1), Symlink("k3", 3, 2)>>)>>)

FS_RootErr == MkFS(Failing(Dir("root", 4096, 1), "err"), <<>>)

FS_RootUnlistable == MkFS(Dir("root", 4096, 1), <<Unreadable>>)

(* ------------------------------------------------------------------ *)
(* Result trees                                                        *)
(* ------------------------------------------------------------------ *)

DirEntry(p, n, s, cs) == [Path |-> p, Name |-> n, Size |-> s, Children |-> cs]

ScanResult(e, sk, err) == [Entry |-> e, Skipped |-> sk, Error |-> err]

Base(p) == p[Len(p)]

Join(p, n) == Append(p, n)

\* sum of the Size fields of cs[lo..hi]
RECURSIVE SumRange(_, _, _)
SumRange(cs, lo, hi) ==
  IF lo > hi THEN 0
  ELSE IF lo = hi THEN cs[lo].Size
  ELSE LET mid == (lo + hi) \div 2
       IN  SumRange(cs, lo, mid) + SumRange(cs, mid + 1, hi)

SumSizes(cs) == SumRange(cs, 1, Len(cs))

\* the place element i takes when cs is sorted by decreasing Size and
\* elements of equal Size keep their order (the insertion sort the Go
\* runtime uses for slices of at most 12 elements moves an element left only
\* past strictly smaller ones)
SortedPlace(cs, i) ==
  1 + Cardinality({j \in 1..Len(cs) : cs[j].Size > cs[i].Size})
    + Cardinality({j \in 1..(i - 1) : cs[j].Size = cs[i].Size})

\* the slice left in the order in which the results arrived
SortBySize_Arrival(cs) == cs

\* sort.Slice(children, func(i, j) { return children[i].Size > children[j].Size })
SortBySize(cs) ==
  CHOOSE sorted \in {[q \in 1..Len(cs) |-> cs[CHOOSE i \in 1..Len(cs) : place[i] = q]] :
                       place \in {[i \in 1..Len(cs) |-> SortedPlace(cs, i)] \o <<>>}} : TRUE

(* ------------------------------------------------------------------ *)
(* State                                                               *)
(* ------------------------------------------------------------------ *)

VARIABLES
  numCPU,         \* runtime.NumCPU() on the machine the program runs on
  stdout,         \* the lines the command "scan" has printed
  fs,             \* the file system being scanned
  call,           \* the top-level ScanDir call: its arguments, position, result
  frame,          \* per directory: the scanner invocation working on it
  processedSize,  \* the int64 behind the processedSize pointer
  dirCache,       \* DirSizeCache.cache: path -> Cache.DirEntry
  scanCancel,     \* number of signals in the channel scanCancel (capacity 1)
  isScanning,     \* the flag guarded by scanMutex
  ui,             \* the UI goroutine: the handler it runs and where it is in it
  scans,          \* the scan goroutines addChildren has started
  asked           \* history: per scan goroutine, what the UI goroutine has
                  \* called while it ran ("none", "cancel", "clear")

scanVars == <<call, frame>>

appVars == <<dirCache, scanCancel, isScanning, ui, scans, asked>>

vars == <<numCPU, stdout, fs, call, frame, processedSize, dirCache, scanCancel, isScanning, ui, scans, asked>>

NoResult == ScanResult(DirEntry(<<>>, "", 0, <<>>), 0, FALSE)

IdleFrame ==
  [pc |-> "idle", scanner |-> "none", path |-> <<>>, depth |-> 0, i |-> 1,
   children |-> <<>>, totalSize |-> 0, skipped |-> 0,
   workers |-> 0, workQueue |-> <<>>, queueClosed |-> FALSE, busy |-> {},
   resultChan |-> <<>>, resultClosed |-> FALSE, wg |-> 0,
   fileBatches |-> <<>>, batchRunning |-> {},
   dirPending |-> {}, dirRunning |-> {}, dirReleased |-> {},
   ret |-> NoResult]

(* ------------------------------------------------------------------ *)
(* ScanDir: stat, listing, choice of scanner                           *)
(* ------------------------------------------------------------------ *)

\* the Lstat a scanner does on a listed entry before it scans it
ParentLstatFails(e) == e.lstat = "err"

\* the Lstat at the top of ScanDir(path)
ScanLstatFails(e) == e.lstat # "ok"

\* a scanner that does not look at the mode bits
IsSymlink_Never(e) == FALSE

\* info.Mode()&os.ModeSymlink != 0
IsSymlink(e) == e.kind = "symlink"

SampleSize(es) == IF Len(es) < 20 THEN Len(es) ELSE 20

\* a sample of the first entries of the listing
SampleIndex_FirstEntries(es, i) == i

\* index := (i * len(entries)) / sampleSize, counted from 0
SampleIndex(es, i) == (i * Len(es)) \div SampleSize(es)

SampledSmall(es) ==
  {i \in 0..(SampleSize(es) - 1) :
     LET e == es[SampleIndex(es, i) + 1]
     IN  /\ e.kind # "dir"
         /\ ~ParentLstatFails(e)
         /\ e.size < IsSmallFileThreshold}

\* a classifier whose comparison is not strict
checkSmallFileDirectory_AtLeast(es) ==
  Cardinality(SampledSmall(es)) >= ((SampleSize(es) * 3) \div 4)

checkSmallFileDirectory(es) ==
  Cardinality(SampledSmall(es)) > ((SampleSize(es) * 3) \div 4)

\* a choice by depth alone: sequential below the top levels
ChooseScanner_ByDepth(es, maxDepth, currentDepth) ==
  IF Len(es) > 100 /\ checkSmallFileDirectory(es) THEN "batched"
  ELSE IF maxDepth = 0 \/ currentDepth < 2 THEN "parallel"
  ELSE "sequential"

\* a choice that sends directories of 20 entries to the parallel scanner
ChooseScanner_From20(es, maxDepth, currentDepth) ==
  IF Len(es) > 100 /\ checkSmallFileDirectory(es) THEN "batched"
  ELSE IF maxDepth = 0 \/ currentDepth < 2 \/ Len(es) >= 20 THEN "parallel"
  ELSE "sequential"

\* the scanner ScanDir delegates a listed directory to
ChooseScanner(es, maxDepth, currentDepth) ==
  IF Len(es) > 100 /\ checkSmallFileDirectory(es) THEN "batched"
  ELSE IF maxDepth = 0 \/ currentDepth < 2 \/ Len(es) > 20 THEN "parallel"
  ELSE "sequential"

\* the position the invocation starts at: scanDirParallel hands directories
\* of fewer than 5 entries to scanDirSequential
StartPc(scanner, es) ==
  CASE scanner = "batched" -> "batch"
    [] scanner = "parallel" -> IF Len(es) < 5 THEN "seq" ELSE "produce"
    [] OTHER -> "seq"

\* ScanDir returns at once: failed stat, not a directory, failed listing
ReturnsAtOnceIn(f, e) ==
  \/ ScanLstatFails(e)
  \/ e.kind # "dir"
  \/ f.dirs[e.dir].readdir = "err"

ReturnsAtOnce(e) == ReturnsAtOnceIn(fs, e)

\* a ScanDir that swallows the error of its own Lstat
ResultAtOnce_NoError(e, p) ==
  IF ScanLstatFails(e) THEN ScanResult(DirEntry(p, Base(p), 0, <<>>), 0, FALSE)
  ELSE IF e.kind # "dir" THEN ScanResult(DirEntry(p, Base(p), e.size, <<>>), 0, FALSE)
  ELSE ScanResult(DirEntry(p, Base(p), e.size, <<>>), e.size, FALSE)

ResultAtOnce(e, p) ==
  IF ScanLstatFails(e) THEN ScanResult(DirEntry(p, Base(p), 0, <<>>), 0, TRUE)
  ELSE IF e.kind # "dir" THEN ScanResult(DirEntry(p, Base(p), e.size, <<>>), 0, FALSE)
  ELSE ScanResult(DirEntry(p, Base(p), e.size, <<>>), e.size, FALSE)

\* atomic.AddInt64(processedSize, entry.Size) on the leaf return
ProcessedAtOnce(e) == IF ~ScanLstatFails(e) /\ e.kind # "dir" THEN e.size ELSE 0

\* indices of the listing in the order the work items are created:
\* regularFiles (everything that is not a directory), then directories
regularFiles(es) ==
  SelectSeq([k \in 1..Len(es) |-> k], LAMBDA k : es[k].kind # "dir")

directories(es) ==
  SelectSeq([k \in 1..Len(es) |-> k], LAMBDA k : es[k].kind = "dir")

\* work items created in the order of the listing
ProduceOrder_AsListed(es) == [k \in 1..Len(es) |-> k]

ProduceOrder(es) == regularFiles(es) \o directories(es)

Min(a, b) == IF a < b THEN a ELSE b

\* a batching that forgets the files after the last full batch
MakeBatches_FullOnly(files) ==
  [b \in 1..(Len(files) \div BatchSize) |->
     SubSeq(files, (b - 1) * BatchSize + 1, Min(b * BatchSize, Len(files)))]

\* a batching that closes a batch only when it holds more than BatchSize files
MakeBatches_Overfull(files) ==
  [b \in 1..((Len(files) + BatchSize) \div (BatchSize + 1)) |->
     SubSeq(files, (b - 1) * (BatchSize + 1) + 1, Min(b * (BatchSize + 1), Len(files)))]

\* regularFiles cut into batches: BatchSize files each, the rest in the last
MakeBatches(files) ==
  [b \in 1..((Len(files) + BatchSize - 1) \div BatchSize) |->
     SubSeq(files, (b - 1) * BatchSize + 1, Min(b * BatchSize, Len(files)))]

\* a pool of three workers per CPU, whatever the machine
workerCount_Uncapped(es) ==
  IF Len(es) > 1000 THEN numCPU * 2 ELSE numCPU * 3

\* the number of worker goroutines scanDirParallel starts
workerCount(es) ==
  Min(24, IF Len(es) > 1000 THEN numCPU * 2 ELSE numCPU * 3)

\* a ScanDir that does not list a directory below maxDepth
EnterFrame_DepthLimited(e, p, currentDepth) ==
  LET es == fs.dirs[e.dir].entries
      sc == ChooseScanner(es, call.maxDepth, currentDepth)
  IN  IF call.maxDepth > 0 /\ currentDepth > call.maxDepth
      THEN [IdleFrame EXCEPT
              !.pc = "done", !.scanner = "sequential",
              !.path = p, !.depth = currentDepth,
              !.ret = ScanResult(DirEntry(p, Base(p), 0, <<>>), 0, FALSE)]
      ELSE [IdleFrame EXCEPT
              !.pc = StartPc(sc, es), !.scanner = sc,
              !.path = p, !.depth = currentDepth,
              !.workers = IF StartPc(sc, es) = "produce" THEN workerCount(es) ELSE 0,
              !.fileBatches = IF sc = "batched"
                              THEN MakeBatches(regularFiles(es))
                              ELSE <<>>]

\* the frame of a directory ScanDir has stat'd and listed
EnterFrame(e, p, currentDepth) ==
  LET es == fs.dirs[e.dir].entries
      sc == ChooseScanner(es, call.maxDepth, currentDepth)
  IN  [IdleFrame EXCEPT
         !.pc = StartPc(sc, es), !.scanner = sc,
         !.path = p, !.depth = currentDepth,
         !.workers = IF StartPc(sc, es) = "produce" THEN workerCount(es) ELSE 0,
         !.fileBatches = IF sc = "batched"
                         THEN MakeBatches(regularFiles(es))
                         ELSE <<>>]

Entries(d) == fs.dirs[d].entries

(* ------------------------------------------------------------------ *)
(* The top-level call                                                  *)
(* ------------------------------------------------------------------ *)

RootPath == <<fs.root.name>>

ScanDirCall ==
  /\ call.pc = "ready"
  /\ IF ReturnsAtOnce(fs.root)
     THEN /\ call' = [call EXCEPT !.pc = "returned",
                                  !.ret = ResultAtOnce(fs.root, RootPath)]
          /\ processedSize' = processedSize + ProcessedAtOnce(fs.root)
          /\ UNCHANGED frame
     ELSE /\ call' = [call EXCEPT !.pc = "running"]
          /\ frame' = [frame EXCEPT ![fs.root.dir] =
                         EnterFrame(fs.root, RootPath, call.currentDepth)]
          /\ UNCHANGED processedSize
  /\ UNCHANGED <<numCPU, stdout, fs, appVars>>

ScanDirReturn ==
  /\ call.pc = "running"
  /\ frame[fs.root.dir].pc = "done"
  /\ call' = [call EXCEPT !.pc = "returned", !.ret = frame[fs.root.dir].ret]
  /\ frame' = [frame EXCEPT ![fs.root.dir] = IdleFrame]
  /\ UNCHANGED <<numCPU, stdout, fs, processedSize, appVars>>

(* ------------------------------------------------------------------ *)
(* scanDirSequential                                                   *)
(* ------------------------------------------------------------------ *)

\* a loop that books the assumed 1KB for a child whose scan fails as well
SeqStep_Assume1K(d) ==
  /\ frame[d].pc = "seq"
  /\ frame[d].i <= Len(Entries(d))
  /\ LET f == frame[d]
         e == Entries(d)[f.i]
         p == Join(f.path, e.name)
         r == ResultAtOnce(e, p)
     IN  IF ParentLstatFails(e)
         THEN /\ frame' = [frame EXCEPT ![d].skipped = f.skipped + 1024,
                                        ![d].i = f.i + 1]
              /\ UNCHANGED processedSize
         ELSE IF IsSymlink(e)
         THEN /\ frame' = [frame EXCEPT ![d].i = f.i + 1]
              /\ UNCHANGED processedSize
         ELSE IF ~ReturnsAtOnce(e)
         THEN /\ frame' = [frame EXCEPT ![d].pc = "seqwait",
                                        ![e.dir] = EnterFrame(e, p, f.depth + 1)]
              /\ UNCHANGED processedSize
         ELSE IF r.Error
         THEN /\ frame' = [frame EXCEPT ![d].skipped = f.skipped + 1024,
                                        ![d].i = f.i + 1]
              /\ UNCHANGED processedSize
         ELSE /\ frame' = [frame EXCEPT
                             ![d].children = Append(f.children, r.Entry),
                             ![d].totalSize = f.totalSize + r.Entry.Size,
                             ![d].skipped = f.skipped + r.Skipped,
                             ![d].i = f.i + 1]
              /\ processedSize' = processedSize + ProcessedAtOnce(e)
  /\ UNCHANGED <<numCPU, stdout, fs, call, appVars>>

\* a loop that gives up on the rest of the listing when a child's scan fails
SeqStep_StopOnError(d) ==
  /\ frame[d].pc = "seq"
  /\ frame[d].i <= Len(Entries(d))
  /\ LET f == frame[d]
         e == Entries(d)[f.i]
         p == Join(f.path, e.name)
         r == ResultAtOnce(e, p)
     IN  IF ParentLstatFails(e)
         THEN /\ frame' = [frame EXCEPT ![d].skipped = f.skipped + 1024,
                                        ![d].i = f.i + 1]
              /\ UNCHANGED processedSize
         ELSE IF IsSymlink(e)
         THEN /\ frame' = [frame EXCEPT ![d].i = f.i + 1]
              /\ UNCHANGED processedSize
         ELSE IF ~ReturnsAtOnce(e)
         THEN /\ frame' = [frame EXCEPT ![d].pc = "seqwait",
                                        ![e.dir] = EnterFrame(e, p, f.depth + 1)]
              /\ UNCHANGED processedSize
         ELSE IF r.Error
         THEN /\ frame' = [frame EXCEPT ![d].skipped = f.skipped + e.size,
                                        ![d].i = Len(Entries(d)) + 1]
              /\ UNCHANGED processedSize
         ELSE /\ frame' = [frame EXCEPT
                             ![d].children = Append(f.children, r.Entry),
                             ![d].totalSize = f.totalSize + r.Entry.Size,
                             ![d].skipped = f.skipped + r.Skipped,
                             ![d].i = f.i + 1]
              /\ processedSize' = processedSize + ProcessedAtOnce(e)
  /\ UNCHANGED <<numCPU, stdout, fs, call, appVars>>

\* one iteration of the loop over the listing, up to the recursive call
SeqStep(d) ==
  /\ frame[d].pc = "seq"
  /\ frame[d].i <= Len(Entries(d))
  /\ LET f == frame[d]
         e == Entries(d)[f.i]
         p == Join(f.path, e.name)
         r == ResultAtOnce(e, p)
     IN  IF ParentLstatFails(e)
         THEN /\ frame' = [frame EXCEPT ![d].skipped = f.skipped + 1024,
                                        ![d].i = f.i + 1]
              /\ UNCHANGED processedSize
         ELSE IF IsSymlink(e)
         THEN /\ frame' = [frame EXCEPT ![d].i = f.i + 1]
              /\ UNCHANGED processedSize
         ELSE IF ~ReturnsAtOnce(e)
         THEN /\ frame' = [frame EXCEPT ![d].pc = "seqwait",
                                        ![e.dir] = EnterFrame(e, p, f.depth + 1)]
              /\ UNCHANGED processedSize
         ELSE IF r.Error
         THEN /\ frame' = [frame EXCEPT ![d].skipped = f.skipped + e.size,
                                        ![d].i = f.i + 1]
              /\ UNCHANGED processedSize
         ELSE /\ frame' = [frame EXCEPT
                             ![d].children = Append(f.children, r.Entry),
                             ![d].totalSize = f.totalSize + r.Entry.Size,
                             ![d].skipped = f.skipped + r.Skipped,
                             ![d].i = f.i + 1]
              /\ processedSize' = processedSize + ProcessedAtOnce(e)
  /\ UNCHANGED <<numCPU, stdout, fs, call, appVars>>

\* a loop that does not add the Size of a subdirectory to totalSize
SeqChildReturn_NoSize(d) ==
  /\ frame[d].pc = "seqwait"
  /\ LET f == frame[d]
         c == Entries(d)[f.i].dir
         r == frame[c].ret
     IN  /\ frame[c].pc = "done"
         /\ frame' = [frame EXCEPT
                        ![d].pc = "seq",
                        ![d].children = Append(f.children, r.Entry),
                        ![d].skipped = f.skipped + r.Skipped,
                        ![d].i = f.i + 1,
                        ![c] = IdleFrame]
  /\ UNCHANGED <<numCPU, stdout, fs, call, processedSize, appVars>>

\* the recursive ScanDir of a listable subdirectory returns (never an error)
SeqChildReturn(d) ==
  /\ frame[d].pc = "seqwait"
  /\ LET f == frame[d]
         c == Entries(d)[f.i].dir
         r == frame[c].ret
     IN  /\ frame[c].pc = "done"
         /\ frame' = [frame EXCEPT
                        ![d].pc = "seq",
                        ![d].children = Append(f.children, r.Entry),
                        ![d].totalSize = f.totalSize + r.Entry.Size,
                        ![d].skipped = f.skipped + r.Skipped,
                        ![d].i = f.i + 1,
                        ![c] = IdleFrame]
  /\ UNCHANGED <<numCPU, stdout, fs, call, processedSize, appVars>>

SeqFinish(d) ==
  /\ frame[d].pc = "seq"
  /\ frame[d].i > Len(Entries(d))
  /\ LET f == frame[d]
     IN  frame' = [frame EXCEPT
                     ![d].pc = "done",
                     ![d].ret = ScanResult(DirEntry(f.path, Base(f.path), f.totalSize,
                                                    SortBySize(f.children)),
                                           f.skipped, FALSE)]
  /\ UNCHANGED <<numCPU, stdout, fs, call, processedSize, appVars>>

(* ------------------------------------------------------------------ *)
(* scanDirParallel                                                     *)
(* ------------------------------------------------------------------ *)

\* the main goroutine stats the next entry and queues a work item for it
ParProduce(d) ==
  /\ frame[d].pc = "produce"
  /\ frame[d].i <= Len(ProduceOrder(Entries(d)))
  /\ LET f == frame[d]
         k == ProduceOrder(Entries(d))[f.i]
         e == Entries(d)[k]
     IN  IF ParentLstatFails(e) \/ IsSymlink(e)
         THEN frame' = [frame EXCEPT ![d].i = f.i + 1]
         ELSE frame' = [frame EXCEPT ![d].i = f.i + 1,
                                     ![d].wg = f.wg + 1,
                                     ![d].workQueue = Append(f.workQueue, k)]
  /\ UNCHANGED <<numCPU, stdout, fs, call, processedSize, appVars>>

\* close(workQueue); from here on the main goroutine ranges over resultChan
ParCloseQueue(d) ==
  /\ frame[d].pc = "produce"
  /\ frame[d].i > Len(ProduceOrder(Entries(d)))
  /\ frame' = [frame EXCEPT ![d].pc = "collect", ![d].queueClosed = TRUE]
  /\ UNCHANGED <<numCPU, stdout, fs, call, processedSize, appVars>>

\* an idle worker receives the next work item and calls ScanDir on it
ParTake(d) ==
  /\ frame[d].pc \in {"produce", "collect"}
  /\ frame[d].workQueue # <<>>
  /\ Cardinality(frame[d].busy) < frame[d].workers
  /\ LET f == frame[d]
         k == Head(f.workQueue)
         e == Entries(d)[k]
     IN  IF ReturnsAtOnce(e)
         THEN frame' = [frame EXCEPT ![d].workQueue = Tail(f.workQueue),
                                     ![d].busy = f.busy \cup {k}]
         ELSE frame' = [frame EXCEPT ![d].workQueue = Tail(f.workQueue),
                                     ![d].busy = f.busy \cup {k},
                                     ![e.dir] = EnterFrame(e, Join(f.path, e.name),
                                                           f.depth + 1)]
  /\ UNCHANGED <<numCPU, stdout, fs, call, processedSize, appVars>>

\* the worker's ScanDir has returned: it sends the result and calls wg.Done
ParPost(d, k) ==
  /\ frame[d].pc \in {"produce", "collect"}
  /\ k \in frame[d].busy
  /\ LET f == frame[d]
         e == Entries(d)[k]
     IN  IF ReturnsAtOnce(e)
         THEN /\ frame' = [frame EXCEPT
                             ![d].busy = f.busy \ {k},
                             ![d].wg = f.wg - 1,
                             ![d].resultChan =
                                Append(f.resultChan, ResultAtOnce(e, Join(f.path, e.name)))]
              /\ processedSize' = processedSize + ProcessedAtOnce(e)
         ELSE /\ frame[e.dir].pc = "done"
              /\ frame' = [frame EXCEPT
                             ![d].busy = f.busy \ {k},
                             ![d].wg = f.wg - 1,
                             ![d].resultChan = Append(f.resultChan, frame[e.dir].ret),
                             ![e.dir] = IdleFrame]
              /\ UNCHANGED processedSize
  /\ UNCHANGED <<numCPU, stdout, fs, call, appVars>>

\* a closer goroutine that does not wait for the workers
ParCloseResults_NoWait(d) ==
  /\ frame[d].pc = "collect"
  /\ ~frame[d].resultClosed
  /\ frame' = [frame EXCEPT ![d].resultClosed = TRUE]
  /\ UNCHANGED <<numCPU, stdout, fs, call, processedSize, appVars>>

\* go func() { wg.Wait(); close(resultChan) }()
ParCloseResults(d) ==
  /\ frame[d].pc = "collect"
  /\ ~frame[d].resultClosed
  /\ frame[d].wg = 0
  /\ frame' = [frame EXCEPT ![d].resultClosed = TRUE]
  /\ UNCHANGED <<numCPU, stdout, fs, call, processedSize, appVars>>

\* a collector that keeps the entry of a failed result among the children
ParCollect_KeepsErrors(d) ==
  /\ frame[d].pc = "collect"
  /\ frame[d].resultChan # <<>>
  /\ LET f == frame[d]
         r == Head(f.resultChan)
     IN  IF r.Error
         THEN frame' = [frame EXCEPT ![d].resultChan = Tail(f.resultChan),
                                     ![d].children = Append(f.children, r.Entry)]
         ELSE frame' = [frame EXCEPT
                          ![d].resultChan = Tail(f.resultChan),
                          ![d].children = Append(f.children, r.Entry),
                          ![d].totalSize = f.totalSize + r.Entry.Size,
                          ![d].skipped = f.skipped + r.Skipped]
  /\ UNCHANGED <<numCPU, stdout, fs, call, processedSize, appVars>>

\* one iteration of "for result := range resultChan"
ParCollect(d) ==
  /\ frame[d].pc = "collect"
  /\ frame[d].resultChan # <<>>
  /\ LET f == frame[d]
         r == Head(f.resultChan)
     IN  IF r.Error
         THEN frame' = [frame EXCEPT ![d].resultChan = Tail(f.resultChan)]
         ELSE frame' = [frame EXCEPT
                          ![d].resultChan = Tail(f.resultChan),
                          ![d].children = Append(f.children, r.Entry),
                          ![d].totalSize = f.totalSize + r.Entry.Size,
                          ![d].skipped = f.skipped + r.Skipped]
  /\ UNCHANGED <<numCPU, stdout, fs, call, processedSize, appVars>>

\* the range loop ends on the closed, drained channel; sort and return
ParFinish(d) ==
  /\ frame[d].pc = "collect"
  /\ frame[d].resultClosed
  /\ frame[d].resultChan = <<>>
  /\ LET f == frame[d]
     IN  frame' = [frame EXCEPT
                     ![d].pc = "done",
                     ![d].ret = ScanResult(DirEntry(f.path, Base(f.path), f.totalSize,
                                                    SortBySize(f.children)),
                                           f.skipped, FALSE)]
  /\ UNCHANGED <<numCPU, stdout, fs, call, processedSize, appVars>>

(* ------------------------------------------------------------------ *)
(* scanSmallFileDir                                                    *)
(* ------------------------------------------------------------------ *)

\* one batch goroutine's loop over its files: the entries it builds
batchEntries(es, p, batch) ==
  LET kept == SelectSeq(batch, LAMBDA k : ~(ParentLstatFails(es[k]) \/ IsSymlink(es[k])))
  IN  [j \in 1..Len(kept) |->
         DirEntry(Join(p, es[kept[j]].name), es[kept[j]].name, es[kept[j]].size, <<>>)]

\* a main goroutine that starts every batch without taking a slot
SmallSpawnBatch_NoSemaphore(d) ==
  /\ frame[d].pc = "batch"
  /\ frame[d].i <= Len(frame[d].fileBatches)
  /\ frame' = [frame EXCEPT ![d].i = frame[d].i + 1,
                            ![d].wg = frame[d].wg + 1,
                            ![d].batchRunning = frame[d].batchRunning \cup {frame[d].i}]
  /\ UNCHANGED <<numCPU, stdout, fs, call, processedSize, appVars>>

\* the main goroutine takes a slot of batchSemaphore and starts the goroutine
\* of the next batch
SmallSpawnBatch(d) ==
  /\ frame[d].pc = "batch"
  /\ frame[d].i <= Len(frame[d].fileBatches)
  /\ Cardinality(frame[d].batchRunning) < numCPU * 2
  /\ frame' = [frame EXCEPT ![d].i = frame[d].i + 1,
                            ![d].wg = frame[d].wg + 1,
                            ![d].batchRunning = frame[d].batchRunning \cup {frame[d].i}]
  /\ UNCHANGED <<numCPU, stdout, fs, call, processedSize, appVars>>

\* a batch goroutine stats its files, merges its subtotal and its entries
\* under the mutex, frees its slot and calls wg.Done
SmallRunBatch(d, b) ==
  /\ frame[d].pc \in {"batch", "dirs"}
  /\ b \in frame[d].batchRunning
  /\ \E bes \in {batchEntries(Entries(d), frame[d].path, frame[d].fileBatches[b])} :
     LET f == frame[d]
     IN  /\ frame' = [frame EXCEPT
                        ![d].batchRunning = f.batchRunning \ {b},
                        ![d].wg = f.wg - 1,
                        ![d].totalSize = f.totalSize + SumSizes(bes),
                        ![d].children = f.children \o bes]
         /\ processedSize' = processedSize + SumSizes(bes)
  /\ UNCHANGED <<numCPU, stdout, fs, call, appVars>>

\* all batches are started: one goroutine per subdirectory, then the closer
\* goroutine; the main goroutine goes on to range over dirResultChan
SmallSpawnDirs(d) ==
  /\ frame[d].pc = "batch"
  /\ frame[d].i > Len(frame[d].fileBatches)
  /\ LET ds == directories(Entries(d))
     IN  frame' = [frame EXCEPT
                     ![d].pc = "dirs",
                     ![d].wg = frame[d].wg + Len(ds),
                     ![d].dirPending = {ds[j] : j \in 1..Len(ds)}]
  /\ UNCHANGED <<numCPU, stdout, fs, call, processedSize, appVars>>

\* a subdirectory goroutine stats its directory; on success it takes a slot
\* of dirSemaphore and calls ScanDir
SmallDirStart(d, k) ==
  /\ frame[d].pc = "dirs"
  /\ k \in frame[d].dirPending
  /\ LET f == frame[d]
         e == Entries(d)[k]
     IN  IF ParentLstatFails(e) \/ IsSymlink(e)
         THEN frame' = [frame EXCEPT ![d].dirPending = f.dirPending \ {k},
                                     ![d].wg = f.wg - 1]
         ELSE /\ Cardinality(f.dirRunning) < numCPU
              /\ IF ReturnsAtOnce(e)
                 THEN frame' = [frame EXCEPT ![d].dirPending = f.dirPending \ {k},
                                             ![d].dirRunning = f.dirRunning \cup {k}]
                 ELSE frame' = [frame EXCEPT
                                  ![d].dirPending = f.dirPending \ {k},
                                  ![d].dirRunning = f.dirRunning \cup {k},
                                  ![e.dir] = EnterFrame(e, Join(f.path, e.name),
                                                        f.depth + 1)]
  /\ UNCHANGED <<numCPU, stdout, fs, call, processedSize, appVars>>

\* its ScanDir has returned: the goroutine frees the slot of dirSemaphore
SmallDirRelease(d, k) ==
  /\ frame[d].pc = "dirs"
  /\ k \in frame[d].dirRunning
  /\ LET f == frame[d]
         e == Entries(d)[k]
     IN  /\ ReturnsAtOnce(e) \/ frame[e.dir].pc = "done"
         /\ frame' = [frame EXCEPT ![d].dirRunning = f.dirRunning \ {k},
                                   ![d].dirReleased = f.dirReleased \cup {k}]
         /\ processedSize' =
              processedSize + (IF ReturnsAtOnce(e) THEN ProcessedAtOnce(e) ELSE 0)
  /\ UNCHANGED <<numCPU, stdout, fs, call, appVars>>

\* ... sends the result on dirResultChan and calls wg.Done
SmallDirPost(d, k) ==
  /\ frame[d].pc = "dirs"
  /\ k \in frame[d].dirReleased
  /\ LET f == frame[d]
         e == Entries(d)[k]
     IN  IF ReturnsAtOnce(e)
         THEN frame' = [frame EXCEPT
                          ![d].dirReleased = f.dirReleased \ {k},
                          ![d].wg = f.wg - 1,
                          ![d].resultChan =
                             Append(f.resultChan, ResultAtOnce(e, Join(f.path, e.name)))]
         ELSE frame' = [frame EXCEPT
                          ![d].dirReleased = f.dirReleased \ {k},
                          ![d].wg = f.wg - 1,
                          ![d].resultChan = Append(f.resultChan, frame[e.dir].ret),
                          ![e.dir] = IdleFrame]
  /\ UNCHANGED <<numCPU, stdout, fs, call, processedSize, appVars>>

\* go func() { wg.Wait(); close(dirResultChan) }()
SmallCloseResults(d) ==
  /\ frame[d].pc = "dirs"
  /\ ~frame[d].resultClosed
  /\ frame[d].wg = 0
  /\ frame' = [frame EXCEPT ![d].resultClosed = TRUE]
  /\ UNCHANGED <<numCPU, stdout, fs, call, processedSize, appVars>>

\* a collector that leaves the subdirectories out of the total
SmallCollect_NoSize(d) ==
  /\ frame[d].pc = "dirs"
  /\ frame[d].resultChan # <<>>
  /\ LET f == frame[d]
         r == Head(f.resultChan)
     IN  IF r.Error
         THEN frame' = [frame EXCEPT ![d].resultChan = Tail(f.resultChan)]
         ELSE frame' = [frame EXCEPT
                          ![d].resultChan = Tail(f.resultChan),
                          ![d].children = Append(f.children, r.Entry),
                          ![d].skipped = f.skipped + r.Skipped]
  /\ UNCHANGED <<numCPU, stdout, fs, call, processedSize, appVars>>

\* one iteration of "for result := range dirResultChan"
SmallCollect(d) ==
  /\ frame[d].pc = "dirs"
  /\ frame[d].resultChan # <<>>
  /\ LET f == frame[d]
         r == Head(f.resultChan)
     IN  IF r.Error
         THEN frame' = [frame EXCEPT ![d].resultChan = Tail(f.resultChan)]
         ELSE frame' = [frame EXCEPT
                          ![d].resultChan = Tail(f.resultChan),
                          ![d].children = Append(f.children, r.Entry),
                          ![d].totalSize = f.totalSize + r.Entry.Size,
                          ![d].skipped = f.skipped + r.Skipped]
  /\ UNCHANGED <<numCPU, stdout, fs, call, processedSize, appVars>>

SmallFinish(d) ==
  /\ frame[d].pc = "dirs"
  /\ frame[d].resultClosed
  /\ frame[d].resultChan = <<>>
  /\ LET f == frame[d]
     IN  frame' = [frame EXCEPT
                     ![d].pc = "done",
                     ![d].ret = ScanResult(DirEntry(f.path, Base(f.path), f.totalSize,
                                                    SortBySize(f.children)),
                                           f.skipped, FALSE)]
  /\ UNCHANGED <<numCPU, stdout, fs, call, processedSize, appVars>>

(* ------------------------------------------------------------------ *)
(* ScanDir as a value: the tree a call returns when every directory    *)
(* below the path goes to scanDirSequential (fewer than 5 entries)     *)
(* ------------------------------------------------------------------ *)

RECURSIVE ScanDirValue(_, _, _), SeqLoop(_, _, _, _, _)

\* the end of scanDirSequential: the children sorted, the result built from
\* what the loop accumulated
SeqReturn(p, acc) ==
  [res |-> ScanResult(DirEntry(p, Base(p), acc.totalSize, SortBySize(acc.children)),
                      acc.skipped, FALSE),
   processed |-> acc.processed]

\* ScanDir of entry e at path p in file system f:
\* [res: the ScanResult, processed: what the call adds to processedSize]
ScanDirValue(f, e, p) ==
  IF ReturnsAtOnceIn(f, e)
  THEN [res |-> ResultAtOnce(e, p), processed |-> ProcessedAtOnce(e)]
  ELSE SeqReturn(p, SeqLoop(f, e.dir, p, 1, Len(f.dirs[e.dir].entries)))

\* what the loop of scanDirSequential accumulates over the entries lo..hi of
\* directory d, in the order of the listing (the children are appended and
\* the totals added entry by entry, so the range is summed by halves)
SeqLoop(f, d, p, lo, hi) ==
  IF lo > hi
  THEN [children |-> <<>>, totalSize |-> 0, skipped |-> 0, processed |-> 0]
  ELSE IF lo = hi
  THEN LET e == f.dirs[d].entries[lo]
           c == ScanDirValue(f, e, Join(p, e.name))
       IN  IF ParentLstatFails(e)
           THEN [children |-> <<>>, totalSize |-> 0, skipped |-> 1024, processed |-> 0]
           ELSE IF IsSymlink(e)
           THEN [children |-> <<>>, totalSize |-> 0, skipped |-> 0, processed |-> 0]
           ELSE IF c.res.Error
           THEN [children |-> <<>>, totalSize |-> 0, skipped |-> e.size, processed |-> 0]
           ELSE [children |-> <<c.res.Entry>>,
                 totalSize |-> c.res.Entry.Size,
                 skipped |-> c.res.Skipped,
                 processed |-> c.processed]
  ELSE LET mid == (lo + hi) \div 2
       IN  CHOOSE acc \in {[children |-> h[1].children \o h[2].children,
                            totalSize |-> h[1].totalSize + h[2].totalSize,
                            skipped |-> h[1].skipped + h[2].skipped,
                            processed |-> h[1].processed + h[2].processed] :
                           h \in {<<SeqLoop(f, d, p, lo, mid),
                                    SeqLoop(f, d, p, mid + 1, hi)>>}} : TRUE

RECURSIVE Resolve(_, _, _, _)
Resolve(f, e, p, k) ==
  IF k > Len(p) THEN e
  ELSE IF e.kind # "dir" \/ e.lstat # "ok" \/ f.dirs[e.dir].readdir # "ok"
       THEN Failing(File(Base(p), 0), "err")
       ELSE LET es == f.dirs[e.dir].entries
                hit == {j \in 1..Len(es) : es[j].name = p[k]}
            IN  IF hit = {} THEN Failing(File(Base(p), 0), "err")
                ELSE Resolve(f, es[CHOOSE j \in hit : TRUE], p, k + 1)

EntryAt(f, p) ==
  IF p[1] = f.root.name THEN Resolve(f, f.root, p, 2)
  ELSE Failing(File(Base(p), 0), "err")

(* ------------------------------------------------------------------ *)
(* Cache: DirSizeCache and the conversions between the two tree types  *)
(* ------------------------------------------------------------------ *)

NewDirSizeCache == [q \in {} |-> DirEntry(<<>>, "", 0, <<>>)]

\* DirSizeCache.Get: (entry, found)
Get(c, p) ==
  IF p \in DOMAIN c THEN [entry |-> c[p], found |-> TRUE]
  ELSE [entry |-> DirEntry(<<>>, "", 0, <<>>), found |-> FALSE]

\* a Set that stores nothing
Set_Dropped(c, p, entry) == c

\* DirSizeCache.Set
\* a Set that also stores every child that has children under the child's path
Set_WithChildren(c, p, entry) ==
  LET kids == {entry.Children[j] : j \in {i \in 1..Len(entry.Children) :
                                            entry.Children[i].Children # <<>>}}
  IN  [q \in (DOMAIN c) \cup {p} \cup {k.Path : k \in kids} |->
         IF q = p THEN entry
         ELSE IF \E k \in kids : k.Path = q THEN CHOOSE k \in kids : k.Path = q
         ELSE c[q]]

Set(c, p, entry) == [q \in (DOMAIN c) \cup {p} |-> IF q = p THEN entry ELSE c[q]]

\* DirSizeCache.Clear
Clear(c) == NewDirSizeCache

RECURSIVE FromUtilsDirEntry(_)
FromUtilsDirEntry(entry) ==
  DirEntry(entry.Path, entry.Name, entry.Size,
           [j \in 1..Len(entry.Children) |-> FromUtilsDirEntry(entry.Children[j])])

RECURSIVE ToUtilsDirEntry(_)
ToUtilsDirEntry(cacheEntry) ==
  DirEntry(cacheEntry.Path, cacheEntry.Name, cacheEntry.Size,
           [j \in 1..Len(cacheEntry.Children) |-> ToUtilsDirEntry(cacheEntry.Children[j])])

\* Utils.ConvertFromCacheEntry: the Cache.DirEntry as a Utils.DirEntry
ConvertFromCacheEntry(cachedEntry) == ToUtilsDirEntry(cachedEntry)

(* ------------------------------------------------------------------ *)
(* The session of the tree view (app)                                  *)
(* ------------------------------------------------------------------ *)

\* number of scan goroutines a behaviour of the session may start
MaxScans == 2

ScanIds == 1..MaxScans

RootNodePath == <<"root">>

\* the paths the tree view has nodes for
Paths == {RootNodePath, <<"root", "c">>}

\* a scan goroutine of addChildren and its spinner goroutine:
\*   pc       where the scan goroutine is
\*   spinner  "running" until the spinner goroutine returns
\*   ret      what CachedScanDir returned
\*   outcome  what the goroutine has queued for the node of path: "cached",
\*            "cancelled", "error" or "scanned", with the child nodes shown
NoScan ==
  [pc |-> "unborn", path |-> <<>>, stopSpinner |-> FALSE, spinner |-> "none",
   ret |-> NoResult, outcome |-> "none", shown |-> <<>>]

\* addDirEntryToNode: the child nodes, largest first
addDirEntryToNode(dirEntry) ==
  LET cs == SortBySize(dirEntry.Children)
  IN  [j \in 1..Len(cs) |->
         [Name |-> cs[j].Name, Size |-> cs[j].Size, IsDir |-> Len(cs[j].Children) > 0]]

\* a send that always adds a signal, as on a channel without a bound
TrySend_Unbounded(ch) == ch + 1

\* a select with "case scanCancel <- true" and a default
TrySend(ch) == IF ch < 1 THEN ch + 1 ELSE ch

\* a select with "case <-scanCancel" and a default
TryReceive(ch) == IF ch > 0 THEN ch - 1 ELSE ch

UnbornScans == {g \in ScanIds : scans[g].pc = "unborn"}

\* addChildren up to the reset of the channel: under scanMutex, a scan in
\* progress is sent the cancel signal
AddChildren(p) ==
  /\ \/ ui.pc = "idle"
     \/ ui.pc = "start" /\ p = RootNodePath
  /\ UnbornScans # {}
  /\ scanCancel' = IF isScanning THEN TrySend(scanCancel) ELSE scanCancel
  /\ ui' = [pc |-> "reset", path |-> p]
  /\ UNCHANGED <<numCPU, stdout, fs, scanVars, processedSize, dirCache, isScanning, scans>>

\* addChildren from the reset on: drain the channel, set the flag, release
\* scanMutex, add the spinner node, start the scan goroutine and its spinner
AddChildrenReset ==
  /\ ui.pc = "reset"
  /\ scanCancel' = TryReceive(scanCancel)
  /\ isScanning' = TRUE
  /\ LET g == CHOOSE x \in UnbornScans : \A y \in UnbornScans : x <= y
     IN  scans' = [scans EXCEPT ![g] = [NoScan EXCEPT !.pc = "get", !.path = ui.path,
                                                       !.spinner = "running"]]
  /\ ui' = [pc |-> "idle", path |-> <<>>]
  /\ UNCHANGED <<numCPU, stdout, fs, scanVars, processedSize, dirCache>>

\* cancelScan, whole: under scanMutex
cancelScan ==
  /\ ui.pc = "idle"
  /\ scanCancel' = IF isScanning THEN TrySend(scanCancel) ELSE scanCancel
  /\ isScanning' = FALSE
  /\ UNCHANGED <<numCPU, stdout, fs, scanVars, processedSize, dirCache, ui, scans>>

\* clearCache: cancelScan() ...
clearCache ==
  /\ ui.pc = "idle"
  /\ scanCancel' = IF isScanning THEN TrySend(scanCancel) ELSE scanCancel
  /\ isScanning' = FALSE
  /\ ui' = [pc |-> "clear", path |-> <<>>]
  /\ UNCHANGED <<numCPU, stdout, fs, scanVars, processedSize, dirCache, scans>>

\* ... then dirCache.Clear()
clearCacheClear ==
  /\ ui.pc = "clear"
  /\ dirCache' = Clear(dirCache)
  /\ ui' = [pc |-> "idle", path |-> <<>>]
  /\ UNCHANGED <<numCPU, stdout, fs, scanVars, processedSize, scanCancel, isScanning, scans>>

\* refreshCurrentDir: cancelScan() ...
refreshCurrentDir(p) ==
  /\ ui.pc = "idle"
  /\ UnbornScans # {}
  /\ scanCancel' = IF isScanning THEN TrySend(scanCancel) ELSE scanCancel
  /\ isScanning' = FALSE
  /\ ui' = [pc |-> "refresh", path |-> p]
  /\ UNCHANGED <<numCPU, stdout, fs, scanVars, processedSize, dirCache, scans>>

\* ... node.ClearChildren(), then addChildren(node) up to the reset
refreshAddChildren ==
  /\ ui.pc = "refresh"
  /\ scanCancel' = IF isScanning THEN TrySend(scanCancel) ELSE scanCancel
  /\ ui' = [ui EXCEPT !.pc = "reset"]
  /\ UNCHANGED <<numCPU, stdout, fs, scanVars, processedSize, dirCache, isScanning, scans>>

\* a scan goroutine that goes to CachedScanDir without looking the path up
ScanCacheGet_NoLookup(g) ==
  /\ scans[g].pc = "get"
  /\ LET sc == scans[g]
         got == Get(dirCache, sc.path)
         utilsEntry == ConvertFromCacheEntry(got.entry)
     IN  IF FALSE
         THEN scans' = [scans EXCEPT ![g].pc = "exit", ![g].stopSpinner = TRUE,
                                     ![g].outcome = "cached",
                                     ![g].shown = addDirEntryToNode(utilsEntry)]
         ELSE scans' = [scans EXCEPT ![g].pc = "cachedscan"]
  /\ UNCHANGED <<numCPU, stdout, fs, scanVars, processedSize, dirCache, scanCancel, isScanning, ui>>

\* the scan goroutine looks the path up in the cache; on a hit it stops the
\* spinner and shows the cached tree
ScanCacheGet(g) ==
  /\ scans[g].pc = "get"
  /\ LET sc == scans[g]
         got == Get(dirCache, sc.path)
         utilsEntry == ConvertFromCacheEntry(got.entry)
     IN  IF got.found
         THEN scans' = [scans EXCEPT ![g].pc = "exit", ![g].stopSpinner = TRUE,
                                     ![g].outcome = "cached",
                                     ![g].shown = addDirEntryToNode(utilsEntry)]
         ELSE scans' = [scans EXCEPT ![g].pc = "cachedscan"]
  /\ UNCHANGED <<numCPU, stdout, fs, scanVars, processedSize, dirCache, scanCancel, isScanning, ui>>

\* CachedScanDir: the cache is checked first
CachedScanDirGet(g) ==
  /\ scans[g].pc = "cachedscan"
  /\ LET sc == scans[g]
         got == Get(dirCache, sc.path)
         utilsEntry == ToUtilsDirEntry(got.entry)
     IN  IF got.found
         THEN /\ scans' = [scans EXCEPT ![g].pc = "select",
                                        ![g].ret = ScanResult(utilsEntry, 0, FALSE)]
              /\ processedSize' = processedSize + utilsEntry.Size
         ELSE /\ scans' = [scans EXCEPT ![g].pc = "scanning"]
              /\ UNCHANGED processedSize
  /\ UNCHANGED <<numCPU, stdout, fs, scanVars, dirCache, scanCancel, isScanning, ui>>

\* a ScanDir that gives up with an empty tree when a cancel is pending
ScanDirDone_Cancellable(g) ==
  /\ scans[g].pc = "scanning"
  /\ LET sc == scans[g]
         v == ScanDirValue(fs, EntryAt(fs, sc.path), sc.path)
         stopped == ScanResult(DirEntry(sc.path, Base(sc.path), 0, <<>>), 0, FALSE)
     IN  /\ scans' = [scans EXCEPT ![g].pc = "setcache",
                                   ![g].ret = IF scanCancel > 0 THEN stopped ELSE v.res]
         /\ processedSize' = processedSize + (IF scanCancel > 0 THEN 0 ELSE v.processed)
  /\ UNCHANGED <<numCPU, stdout, fs, scanVars, dirCache, scanCancel, isScanning, ui>>

\* Utils.ScanDir(path, 1, 0, processedSize) runs and returns
ScanDirDone(g) ==
  /\ scans[g].pc = "scanning"
  /\ LET sc == scans[g]
         v == ScanDirValue(fs, EntryAt(fs, sc.path), sc.path)
     IN  /\ scans' = [scans EXCEPT ![g].pc = "setcache", ![g].ret = v.res]
         /\ processedSize' = processedSize + v.processed
  /\ UNCHANGED <<numCPU, stdout, fs, scanVars, dirCache, scanCancel, isScanning, ui>>

\* a CachedScanDir that stores whatever ScanDir returned
CachedScanDirSet_Always(g) ==
  /\ scans[g].pc = "setcache"
  /\ LET sc == scans[g]
     IN  dirCache' = IF TRUE
                     THEN Set(dirCache, sc.path, FromUtilsDirEntry(sc.ret.Entry))
                     ELSE dirCache
  /\ scans' = [scans EXCEPT ![g].pc = "select"]
  /\ UNCHANGED <<numCPU, stdout, fs, scanVars, processedSize, scanCancel, isScanning, ui>>

\* CachedScanDir: an error-free result is converted and stored
CachedScanDirSet(g) ==
  /\ scans[g].pc = "setcache"
  /\ LET sc == scans[g]
     IN  dirCache' = IF ~sc.ret.Error
                     THEN Set(dirCache, sc.path, FromUtilsDirEntry(sc.ret.Entry))
                     ELSE dirCache
  /\ scans' = [scans EXCEPT ![g].pc = "select"]
  /\ UNCHANGED <<numCPU, stdout, fs, scanVars, processedSize, scanCancel, isScanning, ui>>

\* back in the goroutine: close(stopSpinner), then the select on scanCancel
\* and what is shown under the node
ScanSelect(g) ==
  /\ scans[g].pc = "select"
  /\ LET sc == scans[g]
     IN  IF scanCancel > 0
         THEN /\ scanCancel' = scanCancel - 1
              /\ scans' = [scans EXCEPT ![g].pc = "exit", ![g].stopSpinner = TRUE,
                                        ![g].outcome = "cancelled"]
         ELSE IF sc.ret.Error
         THEN /\ UNCHANGED scanCancel
              /\ scans' = [scans EXCEPT ![g].pc = "exit", ![g].stopSpinner = TRUE,
                                        ![g].outcome = "error"]
         ELSE /\ UNCHANGED scanCancel
              /\ scans' = [scans EXCEPT ![g].pc = "exit", ![g].stopSpinner = TRUE,
                                        ![g].outcome = "scanned",
                                        ![g].shown = addDirEntryToNode(sc.ret.Entry)]
  /\ UNCHANGED <<numCPU, stdout, fs, scanVars, processedSize, dirCache, isScanning, ui>>

\* the deferred function of the goroutine: isScanning = false under
\* scanMutex; the goroutine is gone
ScanExit(g) ==
  /\ scans[g].pc = "exit"
  /\ ui.pc # "reset"
  /\ isScanning' = FALSE
  /\ scans' = [scans EXCEPT ![g] = [NoScan EXCEPT !.pc = "finished",
                                                   !.stopSpinner = TRUE,
                                                   !.spinner = scans[g].spinner]]
  /\ UNCHANGED <<numCPU, stdout, fs, scanVars, processedSize, dirCache, scanCancel, ui>>

\* the spinner goroutine's select takes "case <-stopSpinner"
SpinnerStop(g) ==
  /\ scans[g].spinner = "running"
  /\ scans[g].stopSpinner
  /\ scans' = [scans EXCEPT ![g].spinner = "ended"]
  /\ UNCHANGED <<numCPU, stdout, fs, scanVars, processedSize, dirCache, scanCancel, isScanning, ui>>

\* the spinner goroutine's select takes "case <-scanCancel": it writes
\* "Scan cancelled" on the spinner node and returns
SpinnerCancel(g) ==
  /\ scans[g].spinner = "running"
  /\ scanCancel > 0
  /\ scanCancel' = scanCancel - 1
  /\ scans' = [scans EXCEPT ![g].spinner = "ended"]
  /\ UNCHANGED <<numCPU, stdout, fs, scanVars, processedSize, dirCache, isScanning, ui>>

\* the file systems of the session, in the order the world goes through
\* them: /root with a, b and c/d, then /root cannot be stat'd any more;
\* every directory has fewer than 5 entries
AppFileSystems == <<FS_E2E, FS_RootErr>>

\* the world outside changes the file system; only a traversal in progress
\* reads it, so a change is taken while one is
FsChange(j) ==
  /\ \E i \in 1..(j - 1) : fs = AppFileSystems[i]
  /\ \E g \in ScanIds : scans[g].pc = "scanning"
  /\ fs' = AppFileSystems[j]
  /\ UNCHANGED <<numCPU, stdout, scanVars, processedSize, appVars>>

(* ------------------------------------------------------------------ *)
(* The command "scan" of the CLI: scanDir, printEntry, formatSize      *)
(* ------------------------------------------------------------------ *)

KB == 1024

MB == 1024 * 1024

\* a / b to the nearest integer, a tie to the even one: what %.2f prints of
\* the hundredths
RoundHalfEven(a, b) ==
  LET q == a \div b
      r == a % b
  IN  IF 2 * r > b THEN q + 1
      ELSE IF 2 * r < b THEN q
      ELSE q + (q % 2)

Decimal(hundredths) == <<hundredths \div 100, hundredths % 100>>

\* formatSize for the sizes of the model, which stay below 1 GB: the unit
\* and the digits before and after the point
formatSize(size) ==
  IF size >= MB THEN [unit |-> "MB", digits |-> Decimal(RoundHalfEven(size * 100, MB))]
  ELSE IF size >= KB THEN [unit |-> "KB", digits |-> Decimal(RoundHalfEven(size * 100, KB))]
  ELSE [unit |-> "B", digits |-> <<size>>]

\* float64(part) / float64(total) * 100 as %.2f prints it (the quotient
\* taken as exact)
Percent(part, total) ==
  IF total = 0 THEN <<"NaN">> ELSE Decimal(RoundHalfEven(part * 10000, total))

\* a scanDir that does not go below the depth to display
RECURSIVE scanDir_ToDepth(_, _, _, _, _)
scanDir_ToDepth(f, e, p, maxDepth, currentDepth) ==
  IF ScanLstatFails(e) THEN ScanResult(DirEntry(p, Base(p), 0, <<>>), 0, TRUE)
  ELSE IF e.kind # "dir" THEN ScanResult(DirEntry(p, Base(p), e.size, <<>>), 0, FALSE)
  ELSE IF f.dirs[e.dir].readdir = "err" \/ currentDepth + 1 >= maxDepth
  THEN ScanResult(DirEntry(p, Base(p), 0, <<>>),
                  IF f.dirs[e.dir].readdir = "err" THEN e.size ELSE 0, FALSE)
  ELSE LET es == f.dirs[e.dir].entries
           kept == SelectSeq([k \in 1..Len(es) |-> k],
                             LAMBDA k : ~ParentLstatFails(es[k]) /\ ~IsSymlink(es[k]))
           rs == [j \in 1..Len(kept) |->
                    scanDir_ToDepth(f, es[kept[j]], Join(p, es[kept[j]].name),
                                    maxDepth, currentDepth + 1)]
           good == SelectSeq(rs, LAMBDA r : ~r.Error)
       IN  ScanResult(DirEntry(p, Base(p), SumSizes([j \in 1..Len(good) |-> good[j].Entry]),
                               [j \in 1..Len(good) |-> good[j].Entry]),
                      0, FALSE)

RECURSIVE scanDir(_, _, _, _, _), scanDirLoop(_, _, _, _, _, _, _)

\* scanDir of the CLI: the whole tree below the path whatever maxDepth is,
\* the children in the order of the listing
scanDir(f, e, p, maxDepth, currentDepth) ==
  IF ScanLstatFails(e) THEN ScanResult(DirEntry(p, Base(p), 0, <<>>), 0, TRUE)
  ELSE IF e.kind # "dir" THEN ScanResult(DirEntry(p, Base(p), e.size, <<>>), 0, FALSE)
  ELSE IF f.dirs[e.dir].readdir = "err"
  THEN ScanResult(DirEntry(p, Base(p), 0, <<>>), e.size, FALSE)
  ELSE scanDirLoop(f, e, p, maxDepth, currentDepth, 1,
                   [children |-> <<>>, totalSize |-> 0, skipped |-> 0])

\* the loop over the entries, from entry i on
scanDirLoop(f, e, p, maxDepth, currentDepth, i, acc) ==
  IF i > Len(f.dirs[e.dir].entries)
  THEN ScanResult(DirEntry(p, Base(p), acc.totalSize, acc.children), acc.skipped, FALSE)
  ELSE LET c == f.dirs[e.dir].entries[i]
           r == scanDir(f, c, Join(p, c.name), maxDepth, currentDepth + 1)
       IN  IF ParentLstatFails(c)
           THEN scanDirLoop(f, e, p, maxDepth, currentDepth, i + 1,
                            [acc EXCEPT !.skipped = acc.skipped + e.size])
           ELSE IF IsSymlink(c)
           THEN scanDirLoop(f, e, p, maxDepth, currentDepth, i + 1, acc)
           ELSE IF r.Error
           THEN scanDirLoop(f, e, p, maxDepth, currentDepth, i + 1,
                            [acc EXCEPT !.skipped = acc.skipped + c.size])
           ELSE scanDirLoop(f, e, p, maxDepth, currentDepth, i + 1,
                            [children |-> Append(acc.children, r.Entry),
                             totalSize |-> acc.totalSize + r.Entry.Size,
                             skipped |-> acc.skipped + r.Skipped])

\* the line printEntry prints for an entry: two blanks per level, the name,
\* the formatted size, the share of the total
EntryLine(e, total, level) ==
  [line |-> "entry", indent |-> 2 * level, name |-> e.Name,
   size |-> formatSize(e.Size), percent |-> Percent(e.Size, total)]

RECURSIVE printEntry(_, _, _, _), printChildren(_, _, _, _, _)

\* the lines printEntry prints for e and, while level + 1 < maxDepth, for
\* its children
printEntry(e, total, level, maxDepth) ==
  <<EntryLine(e, total, level)>>
    \o (IF level + 1 < maxDepth
        THEN printChildren(e.Children, 1, total, level + 1, maxDepth)
        ELSE <<>>)

printChildren(cs, j, total, level, maxDepth) ==
  IF j > Len(cs) THEN <<>>
  ELSE printEntry(cs[j], total, level, maxDepth)
         \o printChildren(cs, j + 1, total, level, maxDepth)

\* the depths the command accepts; 2 when none is given
CliDepths == 1..5

\* scan(path, depth) prints the path and the depth
CliScanStart ==
  /\ call.pc = "ready"
  /\ call' = [call EXCEPT !.pc = "header"]
  /\ stdout' = stdout \o <<[line |-> "path", path |-> RootPath],
                           [line |-> "depth", depth |-> call.maxDepth]>>
  /\ UNCHANGED <<numCPU, fs, frame, processedSize, appVars>>

\* root, skippedSize, err := scanDir(path, depth, 0)
CliScanDir ==
  /\ call.pc = "header"
  /\ call' = [call EXCEPT !.pc = "scanned",
                          !.ret = scanDir(fs, fs.root, RootPath, call.maxDepth, 0)]
  /\ UNCHANGED <<numCPU, stdout, fs, frame, processedSize, appVars>>

\* on an error the command prints it and exits with status 1; otherwise it
\* prints the total, the entries and, when something was skipped, the warning
CliScanReport ==
  /\ call.pc = "scanned"
  /\ LET root == call.ret.Entry
         skippedSize == call.ret.Skipped
     IN  IF call.ret.Error
         THEN /\ call' = [call EXCEPT !.pc = "exited"]
              /\ stdout' = Append(stdout, [line |-> "error"])
         ELSE /\ call' = [call EXCEPT !.pc = "printed"]
              /\ stdout' =
                   stdout \o <<[line |-> "total", size |-> formatSize(root.Size)]>>
                          \o printEntry(root, root.Size, 0, call.maxDepth)
                          \o (IF skippedSize > 0
                              THEN <<[line |-> "skipped", size |-> formatSize(skippedSize),
                                      percent |-> Percent(skippedSize,
                                                          root.Size + skippedSize)]>>
                              ELSE <<>>)
  /\ UNCHANGED <<numCPU, fs, frame, processedSize, appVars>>

(* ------------------------------------------------------------------ *)
(* Specification of the scanner                                        *)
(* ------------------------------------------------------------------ *)

FileSystems ==
  {FS_E2E, FS_Skip, FS_Seq, FS_Unlistable, FS_Par, FS_Small,
   FS_SeqLinks, FS_ParLinks, FS_SmallLinks, FS_Nested,
   FS_RootFile, FS_RootErr, FS_RootUnlistable}

AppIdle ==
  /\ dirCache = NewDirSizeCache
  /\ scanCancel = 0
  /\ isScanning = FALSE
  /\ ui = [pc |-> "off", path |-> <<>>]
  /\ scans = [g \in ScanIds |-> NoScan]
  /\ asked = [g \in ScanIds |-> "none"]

\* the trees of three levels, scanned from any depth with any depth limit
DeepFileSystems == {FS_Deep, FS_DeepWide}

Init ==
  /\ numCPU = NumCPU
  /\ stdout = <<>>
  /\ \/ /\ fs \in FileSystems
        /\ \E md \in {0, 1} :
             call = [pc |-> "ready", maxDepth |-> md, currentDepth |-> 0, ret |-> NoResult]
     \/ /\ fs \in DeepFileSystems
        /\ \E md \in 0..MaxDepthMax, cd \in 0..DepthMax :
             call = [pc |-> "ready", maxDepth |-> md, currentDepth |-> cd, ret |-> NoResult]
  /\ frame = [d \in DirIds |-> IdleFrame]
  /\ processedSize = 0
  /\ AppIdle

Next ==
  \/ ScanDirCall
  \/ ScanDirReturn
  \/ \E d \in DirIds : SeqStep(d)
  \/ \E d \in DirIds : SeqChildReturn(d)
  \/ \E d \in DirIds : SeqFinish(d)
  \/ \E d \in DirIds : ParProduce(d)
  \/ \E d \in DirIds : ParCloseQueue(d)
  \/ \E d \in DirIds : ParTake(d)
  \/ \E d \in DirIds : \E k \in frame[d].busy : ParPost(d, k)
  \/ \E d \in DirIds : ParCloseResults(d)
  \/ \E d \in DirIds : ParCollect(d)
  \/ \E d \in DirIds : ParFinish(d)
  \/ \E d \in DirIds : SmallSpawnBatch(d)
  \/ \E d \in DirIds : \E b \in frame[d].batchRunning : SmallRunBatch(d, b)
  \/ \E d \in DirIds : SmallSpawnDirs(d)
  \/ \E d \in DirIds : \E k \in frame[d].dirPending : SmallDirStart(d, k)
  \/ \E d \in DirIds : \E k \in frame[d].dirRunning : SmallDirRelease(d, k)
  \/ \E d \in DirIds : \E k \in frame[d].dirReleased : SmallDirPost(d, k)
  \/ \E d \in DirIds : SmallCloseResults(d)
  \/ \E d \in DirIds : SmallCollect(d)
  \/ \E d \in DirIds : SmallFinish(d)

Spec == Init /\ [][Next]_vars

\* a goroutine that can take a step is scheduled eventually
FairSpec == Spec /\ WF_vars(Next)

(* ------------------------------------------------------------------ *)
(* The choice of the scanner: one ScanDir call on a directory of plain *)
(* files, made at any depth                                            *)
(* ------------------------------------------------------------------ *)

\* a file below the threshold of the classifier, and one above it
SmallFile(k) == File("f" \o ToString(k), 1000 + k)

LargeFile(k) == File("f" \o ToString(k), IsSmallFileThreshold + k)

\* n files, all small or all large
UniformListing(n, small) ==
  Listing([k \in 1..n |-> IF small THEN SmallFile(k) ELSE LargeFile(k)])

\* entry counts around the thresholds 5, 20 and 100 of ScanDir
EntryCounts == {0, 1, 4, 5, 6, 19, 20, 21, 99, 100, 101, 102}

\* the places of a listing of 101 entries in three orders: as listed, the
\* places 1, 6, .., 96 first, the places 1, 6, .., 96 last
Places == [k \in 1..101 |-> k]

EveryFifth == {5 * i + 1 : i \in 0..19}

PlaceOrders ==
  <<Places,
    SelectSeq(Places, LAMBDA k : k \in EveryFifth)
      \o SelectSeq(Places, LAMBDA k : k \notin EveryFifth),
    SelectSeq(Places, LAMBDA k : k \notin EveryFifth)
      \o SelectSeq(Places, LAMBDA k : k \in EveryFifth)>>

\* 101 files, the large ones in the first l places of the order
MixedListing(l, order) ==
  LET large == {order[j] : j \in 1..l}
  IN  Listing([k \in 1..101 |-> IF k \in large THEN LargeFile(k) ELSE SmallFile(k)])

ChooseListings ==
  {UniformListing(n, small) : n \in EntryCounts, small \in BOOLEAN}
    \cup {MixedListing(l, PlaceOrders[o]) : l \in 0..LargeMax, o \in DOMAIN PlaceOrders}

InitChoose ==
  /\ numCPU = NumCPU
  /\ stdout = <<>>
  /\ \E ls \in ChooseListings : fs = MkFS(Dir("root", 4096, 1), <<ls>>)
  /\ \E md \in 0..MaxDepthMax, cd \in 0..DepthMax :
       call = [pc |-> "ready", maxDepth |-> md, currentDepth |-> cd, ret |-> NoResult]
  /\ frame = [d \in DirIds |-> IdleFrame]
  /\ processedSize = 0
  /\ AppIdle

SpecChoose == InitChoose /\ [][ScanDirCall]_vars

(* ------------------------------------------------------------------ *)
(* The size of the worker pool: one ScanDir call on a directory of     *)
(* large files, on machines of 1 to MaxCPU CPUs                        *)
(* ------------------------------------------------------------------ *)

\* entry counts around the thresholds 5 and 1000 of scanDirParallel
PoolEntryCounts == {4, 5, 21, 999, 1000, 1001, 1002}

InitWorkers ==
  /\ numCPU \in 1..MaxCPU
  /\ stdout = <<>>
  /\ \E n \in PoolEntryCounts :
       fs = MkFS(Dir("root", 4096, 1), <<UniformListing(n, FALSE)>>)
  /\ \E md \in 0..MaxDepthMax, cd \in 0..DepthMax :
       call = [pc |-> "ready", maxDepth |-> md, currentDepth |-> cd, ret |-> NoResult]
  /\ frame = [d \in DirIds |-> IdleFrame]
  /\ processedSize = 0
  /\ AppIdle

SpecWorkers == InitWorkers /\ [][ScanDirCall]_vars

(* ------------------------------------------------------------------ *)
(* The batched scanner on directories of one to three batches and two  *)
(* subdirectories, on machines of 1 to NumCPU CPUs: on one CPU         *)
(* batchSemaphore has two slots and dirSemaphore has one               *)
(* ------------------------------------------------------------------ *)

\* numbers of entries that are not directories: one and two full batches,
\* with one file less and one file more
BatchFileCounts ==
  {BatchSize - 1, BatchSize, BatchSize + 1, 2 * BatchSize, 2 * BatchSize + 1}

InitBatch ==
  /\ numCPU \in 1..NumCPU
  /\ stdout = <<>>
  /\ \E n \in BatchFileCounts : fs = FS_Batched(n)
  /\ \E md \in {0, 1} :
       call = [pc |-> "ready", maxDepth |-> md, currentDepth |-> 0, ret |-> NoResult]
  /\ frame = [d \in DirIds |-> IdleFrame]
  /\ processedSize = 0
  /\ AppIdle

NextBatch ==
  \/ ScanDirCall
  \/ ScanDirReturn
  \/ \E d \in DirIds : SeqStep(d)
  \/ \E d \in DirIds : SeqFinish(d)
  \/ \E d \in DirIds : SmallSpawnBatch(d)
  \/ \E d \in DirIds : \E b \in frame[d].batchRunning : SmallRunBatch(d, b)
  \/ \E d \in DirIds : SmallSpawnDirs(d)
  \/ \E d \in DirIds : \E k \in frame[d].dirPending : SmallDirStart(d, k)
  \/ \E d \in DirIds : \E k \in frame[d].dirRunning : SmallDirRelease(d, k)
  \/ \E d \in DirIds : \E k \in frame[d].dirReleased : SmallDirPost(d, k)
  \/ \E d \in DirIds : SmallCloseResults(d)
  \/ \E d \in DirIds : SmallCollect(d)
  \/ \E d \in DirIds : SmallFinish(d)

SpecBatch == InitBatch /\ [][NextBatch]_vars

(* ------------------------------------------------------------------ *)
(* The sample of the classifier: one ScanDir call on a directory of    *)
(* more than 100 entries whose sampled places hold small files and     *)
(* up to OddMax entries of another kind                                *)
(* ------------------------------------------------------------------ *)

\* entry counts above 100: multiples of 20 and their neighbours
SampleCounts == {101, 102, 119, 120, 121, 139, 200}

\* the 20 places of a listing of n entries the sample is taken from
SampledPlaces(n) == [i \in 1..20 |-> (((i - 1) * n) \div 20) + 1]

\* an entry that is no small file: a large file, a subdirectory (all stand
\* for the same empty directory), a symlink, a small file that cannot be
\* stat'd
OddKinds == {"large", "dir", "symlink", "err"}

OddEntry(kind, k) ==
  CASE kind = "large" -> LargeFile(k)
    [] kind = "dir" -> Dir("d" \o ToString(k), 4096, 2)
    [] kind = "symlink" -> Symlink("l" \o ToString(k), 9, 0)
    [] OTHER -> Failing(SmallFile(k), "err")

\* n entries: the first q sampled places hold an entry of the kind, the
\* other sampled places a small file, the places that are not sampled
\* small files or large files
SampleListing(n, q, kind, restSmall) ==
  LET odd == {SampledPlaces(n)[i] : i \in 1..q}
      sampled == {SampledPlaces(n)[i] : i \in 1..20}
  IN  Listing([k \in 1..n |->
                 IF k \in odd THEN OddEntry(kind, k)
                 ELSE IF k \in sampled \/ restSmall THEN SmallFile(k)
                 ELSE LargeFile(k)])

InitSample ==
  /\ numCPU = NumCPU
  /\ stdout = <<>>
  /\ \E n \in SampleCounts, q \in 0..OddMax, kind \in OddKinds, restSmall \in BOOLEAN :
       fs = MkFS(Dir("root", 4096, 1), <<SampleListing(n, q, kind, restSmall), Listing(<<>>)>>)
  /\ \E md \in {0, 1} :
       call = [pc |-> "ready", maxDepth |-> md, currentDepth |-> 0, ret |-> NoResult]
  /\ frame = [d \in DirIds |-> IdleFrame]
  /\ processedSize = 0
  /\ AppIdle

SpecSample == InitSample /\ [][ScanDirCall]_vars

(* ------------------------------------------------------------------ *)
(* Specification of the command "scan"                                 *)
(* ------------------------------------------------------------------ *)

CliFileSystems ==
  {FS_E2E, FS_Skip, FS_Seq, FS_Unlistable, FS_Par, FS_Deep, FS_DeepWide, FS_Nested,
   FS_RootFile, FS_RootErr, FS_RootUnlistable}

InitCli ==
  /\ numCPU = NumCPU
  /\ stdout = <<>>
  /\ fs \in CliFileSystems
  /\ \E depth \in CliDepths :
       call = [pc |-> "ready", maxDepth |-> depth, currentDepth |-> 0, ret |-> NoResult]
  /\ frame = [d \in DirIds |-> IdleFrame]
  /\ processedSize = 0
  /\ AppIdle

NextCli ==
  \/ CliScanStart
  \/ CliScanDir
  \/ CliScanReport

SpecCli == InitCli /\ [][NextCli]_vars

(* ------------------------------------------------------------------ *)
(* Specification of the session                                        *)
(* ------------------------------------------------------------------ *)

\* StartApp: the cache and the channel are made, the root node gets addChildren
InitApp ==
  /\ numCPU = NumCPU
  /\ stdout = <<>>
  /\ \E i \in DOMAIN AppFileSystems : fs = AppFileSystems[i]
  /\ call = [pc |-> "off", maxDepth |-> 1, currentDepth |-> 0, ret |-> NoResult]
  /\ frame = [d \in DirIds |-> IdleFrame]
  /\ processedSize = 0
  /\ dirCache = NewDirSizeCache
  /\ scanCancel = 0
  /\ isScanning = FALSE
  /\ ui = [pc |-> "start", path |-> <<>>]
  /\ scans = [g \in ScanIds |-> NoScan]
  /\ asked = [g \in ScanIds |-> "none"]

NextApp ==
  \/ \E p \in Paths : AddChildren(p) /\ UNCHANGED asked
  \/ AddChildrenReset /\ UNCHANGED asked
  \/ cancelScan /\ UNCHANGED asked
  \/ clearCache /\ UNCHANGED asked
  \/ clearCacheClear /\ UNCHANGED asked
  \/ \E p \in Paths : refreshCurrentDir(p) /\ UNCHANGED asked
  \/ refreshAddChildren /\ UNCHANGED asked
  \/ \E g \in ScanIds : ScanCacheGet(g) /\ UNCHANGED asked
  \/ \E g \in ScanIds : CachedScanDirGet(g) /\ UNCHANGED asked
  \/ \E g \in ScanIds : ScanDirDone(g) /\ UNCHANGED asked
  \/ \E g \in ScanIds : CachedScanDirSet(g) /\ UNCHANGED asked
  \/ \E g \in ScanIds : ScanSelect(g) /\ UNCHANGED asked
  \/ \E g \in ScanIds : ScanExit(g) /\ UNCHANGED asked
  \/ \E g \in ScanIds : SpinnerStop(g) /\ UNCHANGED asked
  \/ \E g \in ScanIds : SpinnerCancel(g) /\ UNCHANGED asked
  \/ \E j \in DOMAIN AppFileSystems : FsChange(j)

SpecApp == InitApp /\ [][NextApp]_vars

(* ------------------------------------------------------------------ *)
(* The session with its history: which calls of the UI goroutine a     *)
(* scan goroutine has lived through                                    *)
(* ------------------------------------------------------------------ *)

\* the scan goroutine runs and has not queued its outcome
InFlight(sc) == sc.pc \in {"get", "cachedscan", "scanning", "setcache", "select"}

\* the step is a call "what" of the UI goroutine ("cancel": a cancel request
\* of cancelScan, "supersede": the cancel request of an addChildren that
\* finds a scan in progress, "clear": dirCache.Clear(), "none": neither):
\* every scan goroutine in flight has lived through it and keeps the first
\* request it has seen, or the Clear; a goroutine that is gone has no history
Rec(what) ==
  asked' = [g \in ScanIds |->
              IF scans'[g].pc \in {"unborn", "finished"} THEN "none"
              ELSE IF what = "none" \/ ~InFlight(scans[g]) THEN asked[g]
              ELSE IF what = "clear" THEN "clear"
              ELSE IF asked[g] = "none" THEN what
              ELSE asked[g]]

\* addChildren requests a cancel when a scan is in progress
CancelIfScanning == IF isScanning THEN "supersede" ELSE "none"

NextAppHist ==
  \/ \E p \in Paths : AddChildren(p) /\ Rec(CancelIfScanning)
  \/ AddChildrenReset /\ Rec("none")
  \/ cancelScan /\ Rec("cancel")
  \/ clearCache /\ Rec("cancel")
  \/ clearCacheClear /\ Rec("clear")
  \/ \E p \in Paths : refreshCurrentDir(p) /\ Rec("cancel")
  \/ refreshAddChildren /\ Rec(CancelIfScanning)
  \/ \E g \in ScanIds : ScanCacheGet(g) /\ Rec("none")
  \/ \E g \in ScanIds : CachedScanDirGet(g) /\ Rec("none")
  \/ \E g \in ScanIds : ScanDirDone(g) /\ Rec("none")
  \/ \E g \in ScanIds : CachedScanDirSet(g) /\ Rec("none")
  \/ \E g \in ScanIds : ScanSelect(g) /\ Rec("none")
  \/ \E g \in ScanIds : ScanExit(g) /\ Rec("none")
  \/ \E g \in ScanIds : SpinnerStop(g) /\ Rec("none")
  \/ \E g \in ScanIds : SpinnerCancel(g) /\ Rec("none")
  \/ \E j \in DOMAIN AppFileSystems : FsChange(j)

SpecAppHist == InitApp /\ [][NextAppHist]_vars

(* ------------------------------------------------------------------ *)
(* Properties of the trees ScanDir returns                             *)
(* ------------------------------------------------------------------ *)

Returned == call.pc = "returned"

Root == call.ret.Entry

\* the sub-trees of a tree, the tree itself included
RECURSIVE Nodes(_)
Nodes(t) == {t} \cup UNION {Nodes(t.Children[j]) : j \in 1..Len(t.Children)}

IsDirectoryIn(f, p) == EntryAt(f, p).kind = "dir" /\ EntryAt(f, p).lstat = "ok"

SortedBySize(cs) == \A j \in 1..(Len(cs) - 1) : cs[j].Size >= cs[j + 1].Size

NameSizes(cs) == [j \in 1..Len(cs) |-> <<cs[j].Name, cs[j].Size>>]

\* no stat and no listing of the file system fails
Clean(f) ==
  /\ f.root.lstat = "ok"
  /\ \A d \in DirIds :
       /\ f.dirs[d].readdir = "ok"
       /\ \A k \in 1..Len(f.dirs[d].entries) : f.dirs[d].entries[k].lstat = "ok"

\* the bytes of the files of a listing that are neither directories nor symlinks
FileBytes(es) ==
  SumSizes([k \in 1..Len(es) |-> [Size |-> IF es[k].kind = "file" THEN es[k].size ELSE 0]])

RECURSIVE FileBytesBelow(_, _)
FileBytesBelow(f, d) ==
  IF d > MaxDirs THEN 0 ELSE FileBytes(f.dirs[d].entries) + FileBytesBelow(f, d + 1)

HasSymlink(f) ==
  \E d \in DirIds : \E k \in 1..Len(f.dirs[d].entries) : f.dirs[d].entries[k].kind = "symlink"

\* C1: in every tree a completed ScanDir returns, every entry that stands for a
\* directory has Size equal to the sum of the Size of its Children, at every
\* level and whichever scanner or return path produced the entry
C1_SizeAdditive ==
  (Returned /\ ~call.ret.Error) =>
     \A t \in Nodes(Root) :
        IsDirectoryIn(fs, t.Path) => t.Size = SumSizes(t.Children)

\* C2: in every tree ScanDir returns, and in every result a scanner hands to
\* its caller, the Children of every entry are ordered by non-increasing Size,
\* whatever the order in which the workers delivered their results
C2_ChildrenSorted ==
  /\ Returned => \A t \in Nodes(Root) : SortedBySize(t.Children)
  /\ \A d \in DirIds :
       frame[d].pc = "done" => \A t \in Nodes(frame[d].ret.Entry) : SortedBySize(t.Children)

\* a scanner that ran its worker pool has returned, and the results had
\* reached it in an order that is not the order by size
C2_Witness ==
  \E d \in DirIds :
     /\ frame[d].pc = "done"
     /\ frame[d].scanner = "parallel"
     /\ ~SortedBySize(frame[d].children)
     /\ Len(frame[d].ret.Entry.Children) >= 4

\* what a returned tree owes to the symlinks of the directory: no error, no
\* entry of the tree is a symlink, and where nothing fails the Size is the
\* bytes of the regular files alone and skipped is zero
SymlinksExcludedState ==
  (Returned /\ fs.root.lstat = "ok" /\ fs.root.kind = "dir") =>
     /\ ~call.ret.Error
     /\ \A t \in Nodes(Root) : EntryAt(fs, t.Path).kind # "symlink"
     /\ Clean(fs) => /\ Root.Size = FileBytesBelow(fs, 1)
                     /\ call.ret.Skipped = 0

\* C3: a directory holding symlinks (to a large file, to itself, to an
\* ancestor) is scanned without error and the scan ends; in all three scanners
\* no symlink is among the Children at any level, and it adds nothing to Size
\* and nothing to skipped
C3_SymlinksExcluded == []SymlinksExcludedState /\ <>Returned

\* the batched scanner has returned the tree of a directory that holds a
\* symlink to itself and a symlink to a large file
C3_Witness ==
  /\ Returned
  /\ fs = FS_SmallLinks
  /\ Len(Root.Children) = 99
  /\ Root.Size = FileBytesBelow(fs, 1)

\* C4: /root with a (10000), b (5000) and c/d (20000), scanned with
\* maxDepth = 0: no error, Size 35000, skipped 0, Children [c, a, b]
C4_EndToEnd ==
  (Returned /\ fs = FS_E2E /\ call.maxDepth = 0) =>
     /\ ~call.ret.Error
     /\ Root.Size = 35000
     /\ call.ret.Skipped = 0
     /\ NameSizes(Root.Children) = <<<<"c", 20000>>, <<"a", 10000>>, <<"b", 5000>>>>

C4_Witness ==
  /\ Returned
  /\ fs = FS_E2E
  /\ call.maxDepth = 0
  /\ Root.Size = 35000
  /\ Len(Root.Children) = 3
  /\ Len(Root.Children[1].Children) = 1

\* some stat or listing below the requested path fails
FailsBelow(f) ==
  \E d \in DirIds :
     \/ \E k \in 1..Len(f.dirs[d].entries) : f.dirs[d].entries[k].lstat # "ok"
     \/ \E k \in 1..Len(f.dirs[d].entries) :
           /\ f.dirs[d].entries[k].kind = "dir"
           /\ f.dirs[f.dirs[d].entries[k].dir].readdir = "err"

\* C5: ScanDir returns an error exactly when the Lstat of the requested path
\* fails; failures below it never make the call return an error
C5_ErrorOnlyFromRootStat ==
  Returned => (call.ret.Error <=> fs.root.lstat # "ok")

C5_Witness ==
  /\ Returned
  /\ ~call.ret.Error
  /\ FailsBelow(fs)
  /\ call.ret.Skipped > 0

\* C6: a directory that cannot be listed is returned, without error, with
\* Size 0, no children and skipped equal to its own stat size, so that it
\* adds nothing to the Size of an ancestor
C6_UnlistableIsZero ==
  (Returned /\ ~call.ret.Error) =>
     \A t \in Nodes(Root) :
        (IsDirectoryIn(fs, t.Path) /\ fs.dirs[EntryAt(fs, t.Path).dir].readdir = "err")
           => /\ t.Size = 0
              /\ t.Children = <<>>
              /\ t = Root => call.ret.Skipped = fs.root.size

SetStep(g) == scans[g].pc = "setcache" /\ scans'[g].pc = "select"

\* ... and the result it holds has no error, so Set is called
StoresStep(g) == SetStep(g) /\ ~scans[g].ret.Error

\* the UI goroutine takes the step of clearCache that calls Clear
ClearStep == ui.pc = "clear" /\ ui'.pc = "idle"

\* the trees the scan goroutines are about to pass to Set
HeldEntries ==
  {FromUtilsDirEntry(scans[g].ret.Entry) :
     g \in {h \in ScanIds : scans[h].pc = "setcache" /\ ~scans[h].ret.Error}}

\* the child nodes of a tree, in the order of its Children
NodesInOrder(entry) ==
  [j \in 1..Len(entry.Children) |->
     [Name |-> entry.Children[j].Name, Size |-> entry.Children[j].Size,
      IsDir |-> Len(entry.Children[j].Children) > 0]]

C8_Step ==
  /\ \A p \in Paths : \A e \in HeldEntries :
       /\ Get(Set(dirCache, p, e), p) = [entry |-> e, found |-> TRUE]
       /\ \A q \in Paths \ {p} : Get(Set(dirCache, p, e), q) = Get(dirCache, q)
  /\ \A p \in Paths : ~Get(Clear(dirCache), p).found
  /\ \A g \in ScanIds :
       StoresStep(g) =>
          Get(dirCache', scans[g].path) =
             [entry |-> FromUtilsDirEntry(scans[g].ret.Entry), found |-> TRUE]
  /\ ClearStep => \A p \in Paths : ~Get(dirCache', p).found
  /\ \A p \in Paths :
       Get(dirCache', p) # Get(dirCache, p) =>
          \/ ClearStep
          \/ \E g \in ScanIds : StoresStep(g) /\ scans[g].path = p

\* C8: Set(p, e) followed by Get(p) gives (e, true); after Clear every Get
\* gives found = false; and what Get(p) gives changes only in a step that
\* calls Set(p, .) or Clear
C8_CacheRoundTrip == [][C8_Step]_vars

\* a scan has stored its tree and Get gives that tree back
C8_Witness ==
  \E g \in ScanIds :
     /\ scans[g].pc = "select"
     /\ ~scans[g].ret.Error
     /\ Len(scans[g].ret.Entry.Children) = 3
     /\ Get(dirCache, scans[g].path) =
           [entry |-> FromUtilsDirEntry(scans[g].ret.Entry), found |-> TRUE]

\* the value under key p is the tree of an error-free ScanDir of p on a file
\* system the session went through, sorted at every level
CompleteTree(p) ==
  \E i \in DOMAIN AppFileSystems :
     LET f == AppFileSystems[i]
         v == ScanDirValue(f, EntryAt(f, p), p)
     IN  /\ ~v.res.Error
         /\ dirCache[p] = FromUtilsDirEntry(v.res.Entry)
         /\ \A t \in Nodes(dirCache[p]) : SortedBySize(t.Children)

C9_State == \A p \in DOMAIN dirCache : CompleteTree(p)

C9_Step ==
  /\ \A p \in Paths :
       (Get(dirCache', p).found /\ Get(dirCache', p) # Get(dirCache, p)) =>
          \E g \in ScanIds :
             /\ StoresStep(g)
             /\ scans[g].path = p
             /\ dirCache'[p] = FromUtilsDirEntry(scans[g].ret.Entry)
  /\ \A g \in ScanIds :
       (scans[g].pc \in {"get", "cachedscan", "scanning"} /\ scans'[g] # scans[g])
          => dirCache' = dirCache
  /\ \A g \in ScanIds :
       (SetStep(g) /\ scans[g].ret.Error) => dirCache' = dirCache

\* C9: every value in the cache under key p is the complete, size-sorted tree
\* of a ScanDir of p that finished without error; nothing is stored while the
\* scan is in progress, and a scan that ends in an error leaves the cache as
\* it was
C9_CacheHoldsCompleteTrees == []C9_State /\ [][C9_Step]_vars

\* a scan whose root stat failed is past the store, and the cache still holds
\* the tree of an earlier scan
C9_Witness ==
  \E g \in ScanIds :
     /\ scans[g].pc = "select"
     /\ scans[g].ret.Error
     /\ DOMAIN dirCache # {}

C10_Step ==
  \A g \in ScanIds :
     /\ (scans[g].pc = "get" /\ scans'[g].pc # "get") =>
           IF Get(dirCache, scans[g].path).found
           THEN /\ scans'[g].pc = "exit"
                /\ scans'[g].outcome = "cached"
                /\ scans'[g].shown = NodesInOrder(dirCache[scans[g].path])
           ELSE scans'[g].pc = "cachedscan"
     /\ (scans'[g].pc = "scanning" /\ scans[g].pc # "scanning") =>
           /\ scans[g].pc = "cachedscan"
           /\ ~Get(dirCache, scans[g].path).found
     /\ (scans[g].pc = "scanning" /\ scans'[g].pc # "scanning") =>
           scans'[g].pc = "setcache"
     /\ StoresStep(g) =>
           /\ scans[g].path \in DOMAIN dirCache'
           /\ ToUtilsDirEntry(dirCache'[scans[g].path]) = scans[g].ret.Entry

\* C10: a scan goroutine looks its path up in the cache before any traversal;
\* on a hit it shows the stored tree (same sizes, children and order) and
\* never calls ScanDir; on a miss ScanDir runs and its error-free tree is
\* stored under the path
C10_CacheBeforeScan == [][C10_Step]_vars

\* a scan goroutine has shown the three children of /root from the cache
C10_Witness ==
  \E g \in ScanIds :
     /\ scans[g].pc = "exit"
     /\ scans[g].outcome = "cached"
     /\ NameSizes(scans[g].shown) = <<<<"c", 20000>>, <<"a", 10000>>, <<"b", 5000>>>>

(* ------------------------------------------------------------------ *)
(* C11                                                                 *)
(* ------------------------------------------------------------------ *)

\* C11: after clearCache (cancelScan, then Clear) no scan goroutine that was
\* in flight when the cache was cleared writes an entry into the cache: a
\* step of CachedScanDir that calls Set is never taken by a goroutine that
\* has lived through a Clear.
C11_NoWriteAfterClear ==
  [][\A g \in ScanIds : StoresStep(g) => asked[g] # "clear"]_vars

(* ------------------------------------------------------------------ *)
(* C12                                                                 *)
(* ------------------------------------------------------------------ *)

\* a cancel request as cancelScan makes it, on a channel ch with the flag
\* scanning: the try-send when a scan is in progress, then the flag is down
RequestCancel(st) ==
  [ch |-> IF st.scanning THEN TrySend(st.ch) ELSE st.ch, scanning |-> FALSE]

C12_State ==
  LET now == [ch |-> scanCancel, scanning |-> isScanning]
  IN  /\ scanCancel \in {0, 1}
      \* two requests leave what one request leaves, with at most one signal
      /\ RequestCancel(RequestCancel(now)) = RequestCancel(now)
      /\ RequestCancel(now).ch <= 1
      /\ isScanning => RequestCancel(now).ch = 1
      \* the try-send itself: a second send finds the slot full and adds nothing
      /\ TrySend(scanCancel) = 1
      /\ TrySend(TrySend(scanCancel)) = TrySend(scanCancel)
      \* the drain of an empty slot
      /\ scanCancel = 0 => TryReceive(scanCancel) = 0
      /\ TryReceive(TryReceive(scanCancel)) = 0

C12_Step ==
  \* a call of the UI goroutine that finds a signal pending leaves it pending
  /\ (scanCancel = 1 /\ scans' = scans) => scanCancel' = 1
  \* addChildren's reset of an empty slot leaves it empty
  /\ (scanCancel = 0 /\ ui.pc = "reset") => scanCancel' = 0

\* C12: cancel signalling is idempotent: two cancel requests in a row before
\* the signal is observed leave the state one request leaves, with exactly
\* one pending signal and never more; draining an empty slot changes nothing.
C12_CancelIdempotent == []C12_State /\ [][C12_Step]_vars

\* a cancel was requested during a scan and is not yet observed, and the UI
\* goroutine can request again
C12_Witness ==
  /\ scanCancel = 1
  /\ ~isScanning
  /\ ui.pc = "idle"
  /\ \E g \in ScanIds : scans[g].pc \in {"cachedscan", "scanning", "setcache"}

(* ------------------------------------------------------------------ *)
(* C13                                                                 *)
(* ------------------------------------------------------------------ *)

\* C13: after a cancel is requested during an in-flight scan, the scan
\* goroutine stops waiting for the scan result and reports the cancelled
\* outcome without waiting for ScanDir to finish: a goroutine that has been
\* asked to cancel while it waits inside CachedScanDir is never still there
\* to take the return of ScanDir.
C13_CancelDoesNotWait ==
  [][\A g \in ScanIds :
       (scans[g].pc = "scanning" /\ asked[g] # "none") => scans'[g].pc # "setcache"]_vars

(* ------------------------------------------------------------------ *)
(* C14                                                                 *)
(* ------------------------------------------------------------------ *)

\* C14: whenever a cancel is requested while a scan is in flight, that scan
\* ends in the "scan cancelled" outcome: a scan goroutine that has lived
\* through a cancel request never shows its result tree or an error node.
C14_CancelledOutcome ==
  \A g \in ScanIds :
    (scans[g].pc = "exit" /\ asked[g] # "none") => scans[g].outcome = "cancelled"

(* ------------------------------------------------------------------ *)
(* C15                                                                 *)
(* ------------------------------------------------------------------ *)

\* C15: processedSize is reset to zero whenever a new top-level scan begins:
\* after the step of addChildren that starts a scan goroutine the counter
\* is zero.
C15_ProcessedSizeReset ==
  [][(\E g \in ScanIds : scans[g].pc = "unborn" /\ scans'[g].pc = "get")
       => processedSize' = 0]_vars

(* ------------------------------------------------------------------ *)
(* C16                                                                 *)
(* ------------------------------------------------------------------ *)

\* ScanDir has listed a directory of 101 plain files and chosen its scanner
Chose101 ==
  /\ call.pc = "running"
  /\ Len(Entries(fs.root.dir)) = 101
  /\ \A k \in 1..101 : Entries(fs.root.dir)[k].kind = "file"

IsSmall(e) == e.kind = "file" /\ e.lstat = "ok" /\ e.size < 32 * 1024

\* how many of the 101 files are small, and how many of the 20 in the
\* places 1, 6, .., 96
SmallCount == Cardinality({k \in 1..101 : IsSmall(Entries(fs.root.dir)[k])})

SmallAtEveryFifth ==
  Cardinality({i \in 0..19 : IsSmall(Entries(fs.root.dir)[5 * i + 1])})

ChoseBatched == frame[fs.root.dir].scanner = "batched"

\* C16 as stated: a directory of 101 files of which 76% (or more) are
\* smaller than 32 KiB is classified small-file-heavy and one of which 75%
\* (or fewer) are is not, wherever the small files are in the listing.
C16_ProportionOfAll ==
  Chose101 =>
    /\ (100 * SmallCount >= 76 * 101) => ChoseBatched
    /\ (100 * SmallCount <= 75 * 101) => ~ChoseBatched

\* C16, amended: a directory of 101 files is classified small-file-heavy
\* exactly when more than 75% of the 20 sampled files (every fifth of the
\* listing, from the first) are smaller than 32 KiB: 16 of 20 are enough,
\* 15 of 20 are not, whatever the other 81 files are.
C16_ProportionOfSample ==
  Chose101 => (ChoseBatched <=> 4 * SmallAtEveryFifth > 3 * 20)

\* 16 of the 20 sampled files are small and the batched scanner is chosen
C16_Witness ==
  /\ Chose101
  /\ SmallAtEveryFifth = 16
  /\ ChoseBatched

(* ------------------------------------------------------------------ *)
(* C17                                                                 *)
(* ------------------------------------------------------------------ *)

\* the scanner whose loop runs the invocation of a frame
RunsAs(f) ==
  CASE f.pc = "seq" -> "sequential"
    [] f.pc = "produce" -> "parallel"
    [] f.pc = "batch" -> "batched"
    [] OTHER -> "none"

\* C17: for a listable directory with n entries ScanDir picks exactly one
\* strategy: batched if n > 100 and the classifier returns true; otherwise
\* parallel if maxDepth = 0 or currentDepth < 2 or n > 20; otherwise
\* sequential; and the parallel scanner hands a directory of fewer than 5
\* entries to the sequential scanner.
C17_StrategyChoice ==
  call.pc = "running" =>
    LET f == frame[fs.root.dir]
        es == Entries(fs.root.dir)
        n == Len(es)
        batched == n > 100 /\ checkSmallFileDirectory(es)
        parallel == ~batched /\ (call.maxDepth = 0 \/ call.currentDepth < 2 \/ n > 20)
    IN  /\ f.scanner \in {"batched", "parallel", "sequential"}
        /\ f.scanner = "batched" <=> batched
        /\ f.scanner = "parallel" <=> parallel
        /\ f.scanner = "sequential" <=> (~batched /\ ~parallel)
        /\ RunsAs(f) = IF f.scanner = "parallel" /\ n < 5 THEN "sequential" ELSE f.scanner

\* a directory of 20 entries at depth 2 of a scan with a depth limit goes
\* to the sequential scanner
C17_Witness ==
  /\ call.pc = "running"
  /\ Len(Entries(fs.root.dir)) = 20
  /\ call.maxDepth = 1
  /\ call.currentDepth = 2
  /\ frame[fs.root.dir].scanner = "sequential"
  /\ frame[fs.root.dir].pc = "seq"

(* ------------------------------------------------------------------ *)
(* C20                                                                 *)
(* ------------------------------------------------------------------ *)

RECURSIVE TreePaths(_, _, _)
TreePaths(f, e, p) ==
  {p} \cup
    IF e.kind # "dir" THEN {}
    ELSE UNION {TreePaths(f, f.dirs[e.dir].entries[k], Join(p, f.dirs[e.dir].entries[k].name)) :
                  k \in {j \in 1..Len(f.dirs[e.dir].entries) :
                           f.dirs[e.dir].entries[j].kind # "symlink"}}

\* C18: maxDepth never bounds traversal: for any tree, maxDepth and
\* currentDepth, ScanDir descends to the bottom of the tree, the returned
\* tree contains every level, and (absent stat and list failures) the root
\* Size is the sum of the sizes of all non-symlink files of the whole
\* subtree, the same for every maxDepth.
C18_DepthUnbounded ==
  (Returned /\ Clean(fs) /\ fs.root.kind = "dir") =>
     /\ ~call.ret.Error
     /\ {t.Path : t \in Nodes(Root)} = TreePaths(fs, fs.root, RootPath)
     /\ Root.Size = FileBytesBelow(fs, fs.root.dir)

\* a tree of three levels scanned with maxDepth 1 from depth 2: the file at
\* the bottom is in the result
C18_Witness ==
  /\ Returned
  /\ fs = FS_Deep
  /\ call.maxDepth = 1
  /\ call.currentDepth = 2
  /\ Root.Size = 750
  /\ <<"root", "sub", "subsub", "c">> \in {t.Path : t \in Nodes(Root)}

(* ------------------------------------------------------------------ *)
(* C19                                                                 *)
(* ------------------------------------------------------------------ *)

\* the goroutines one scanner invocation has started that have not ended:
\* the workers of the pool that hold a work item, the batch goroutines, the
\* subdirectory goroutines (waiting for dirSemaphore, scanning, or about to
\* post their result)
LiveWorkers(f) ==
  Cardinality(f.busy) + Cardinality(f.batchRunning)
    + Cardinality(f.dirPending \cup f.dirRunning \cup f.dirReleased)

\* C19: per directory, the number of simultaneously live worker goroutines
\* one scanner invocation has spawned never exceeds a fixed limit derived
\* from the CPU count (three per CPU: the pool of the parallel scanner, or
\* the two semaphores of the batched scanner together), however many
\* entries or subdirectories the directory has.
C19_BoundedWorkers ==
  \A d \in DirIds : LiveWorkers(frame[d]) <= 3 * numCPU

(* ------------------------------------------------------------------ *)
(* C21                                                                 *)
(* ------------------------------------------------------------------ *)

\* the goroutines of an invocation that have not ended their work
Unfinished(f) ==
  f.busy \cup f.batchRunning \cup f.dirPending \cup f.dirRunning \cup f.dirReleased

\* the frames that run a pool: scanDirParallel past its hand-over of small
\* directories, and scanSmallFileDir
Pooled(f) == f.pc \in {"produce", "collect", "batch", "dirs"}

C21_State ==
  \A d \in DirIds :
    LET f == frame[d]
    IN  /\ Pooled(f) =>
              \* no send finds its buffer full: make(chan, len(entries))
              /\ Len(f.workQueue) <= Len(Entries(d))
              /\ Len(f.resultChan) <= Len(Entries(d))
              /\ f.scanner = "batched" => Len(f.resultChan) <= Len(directories(Entries(d)))
              \* the semaphores hold no more than their capacity
              /\ Cardinality(f.batchRunning) <= 2 * numCPU
              /\ Cardinality(f.dirRunning) <= numCPU
              /\ Cardinality(f.busy) <= workerCount(Entries(d))
              \* the result channel is closed only after every result is posted
              /\ f.resultClosed => (f.wg = 0 /\ Unfinished(f) = {} /\ f.workQueue = <<>>)
        \* the invocation returns with every goroutine gone and nothing unread
        /\ f.pc = "done" =>
              /\ Unfinished(f) = {}
              /\ f.workQueue = <<>>
              /\ f.resultChan = <<>>
              /\ f.wg = 0
              /\ f.scanner = "sequential" \/ StartPc(f.scanner, Entries(d)) = "seq"
                    \/ f.resultClosed

\* nothing is sent on a closed result channel, and it stays closed until
\* the invocation is over
C21_Step ==
  \A d \in DirIds :
    (frame[d].resultClosed /\ frame'[d].pc # "idle") =>
       /\ frame'[d].resultClosed
       /\ Len(frame'[d].resultChan) <= Len(frame[d].resultChan)

\* C21: for any finite directory tree every ScanDir call terminates: in
\* scanDirParallel and scanSmallFileDir every worker goroutine exits, the
\* result channel is closed once and only after every result has been
\* posted, and no send on a work queue, a result channel or a semaphore
\* blocks forever, also when pools are nested through recursion.
C21_Terminates == <>Returned /\ []C21_State /\ [][C21_Step]_vars

\* the pool of a directory scanned by the pool of its parent has closed its
\* result channel while the parent's pool still waits for this worker
C21_Witness ==
  /\ fs = FS_Nested
  /\ frame[1].pc = "collect"
  /\ 2 \in frame[1].busy
  /\ frame[2].scanner = "parallel"
  /\ frame[2].resultClosed
  /\ frame[2].pc = "collect"

(* ------------------------------------------------------------------ *)
(* C22                                                                 *)
(* ------------------------------------------------------------------ *)

C22_Step ==
  \A g \in ScanIds :
    scans[g].pc = "scanning" =>
       \* a cancel signal that is sent leaves the goroutine inside ScanDir
       /\ scanCancel' > scanCancel => scans'[g] = scans[g]
       \* the only way out of ScanDir is its return, with the result of the
       \* whole subtree, whether a signal is pending or not
       /\ scans'[g].pc # "scanning" =>
             /\ scans'[g].pc = "setcache"
             /\ scans'[g].ret = ScanDirValue(fs, EntryAt(fs, scans[g].path), scans[g].path).res

\* C22: cancellation is not propagated into dispatched work: after a cancel
\* signal is sent an in-flight ScanDir keeps running until its whole subtree
\* is resolved, nothing is stopped or dropped because of the cancel, and the
\* call returns the result it would have returned without the cancel.
C22_CancelNotPropagated == [][C22_Step]_vars

\* ScanDir has returned the whole tree of /root to a goroutine whose scan
\* was cancelled, with the signal still pending
C22_Witness ==
  \E g \in ScanIds :
    /\ scans[g].pc = "setcache"
    /\ scanCancel = 1
    /\ ~isScanning
    /\ ~scans[g].ret.Error
    /\ scans[g].ret.Entry.Size = 35000
    /\ Len(scans[g].ret.Entry.Children) = 3

(* ------------------------------------------------------------------ *)
(* C23                                                                 *)
(* ------------------------------------------------------------------ *)

\* C23: when addChildren is invoked while another scan is in progress, the
\* earlier scan is cancelled: it observes the signal sent for it and ends
\* in the cancelled outcome instead of showing its results. A scan goroutine
\* whose first cancel request came from a later addChildren never reaches
\* its end with another outcome.
C23_SupersededIsCancelled ==
  \A g \in ScanIds :
    (scans[g].pc = "exit" /\ asked[g] = "supersede") => scans[g].outcome = "cancelled"

(* ------------------------------------------------------------------ *)
(* C24                                                                 *)
(* ------------------------------------------------------------------ *)

\* the scan goroutines addChildren has started so far
Started == {g \in ScanIds : scans[g].pc # "unborn"}

\* the one started last: the goroutines are numbered as they are started
Current == CHOOSE g \in Started : \A h \in Started : h <= g

\* C24: isScanning is true at every moment at which the most recently
\* started scan goroutine has not finished and has not been cancelled; the
\* completion of an older, superseded scan never clears the flag of the
\* current one.
C24_FlagOfCurrentScan ==
  (Started # {} /\ InFlight(scans[Current]) /\ asked[Current] = "none") => isScanning

(* ------------------------------------------------------------------ *)
(* C25                                                                 *)
(* ------------------------------------------------------------------ *)

\* a spinner goroutine or a scan goroutine of scan g receives from scanCancel
Receives(g) ==
  /\ g \in Started
  /\ scanCancel' < scanCancel
  /\ scans'[g] # scans[g]

\* C25: a cancel signal sent while a scan is the current scan is only ever
\* received by the spinner or the scan goroutine of that scan, never by
\* those of an earlier scan that is still finishing. (addChildren empties
\* the channel before it starts a scan, so a pending signal was sent while
\* the scan started last was the current one.)
C25_SignalReachesCurrent ==
  [][\A g \in ScanIds : Receives(g) => g = Current]_vars

(* ------------------------------------------------------------------ *)
(* C26                                                                 *)
(* ------------------------------------------------------------------ *)

\* the Lstat of the parent succeeds on the entry, it is no symlink, and the
\* ScanDir called on it returns an error
ChildScanFails(e) == e.lstat = "gone" /\ e.kind # "symlink"

C26_Step ==
  \A d \in DirIds :
    (frame[d].pc = "seq" /\ frame[d].i <= Len(Entries(d)) /\ frame'[d] # frame[d]) =>
       LET f == frame[d]
           e == Entries(d)[f.i]
       IN  \* one entry at a time, in listing order
           /\ frame'[d].i \in {f.i, f.i + 1}
           /\ frame'[d].i = f.i => frame'[d].pc = "seqwait"
           \* the failed child is booked and the loop goes on
           /\ ChildScanFails(e) =>
                 /\ frame'[d].pc = "seq"
                 /\ frame'[d].i = f.i + 1
                 /\ frame'[d].skipped = f.skipped + e.size
                 /\ frame'[d].children = f.children
                 /\ frame'[d].totalSize = f.totalSize

C26_State ==
  \A d \in DirIds :
    LET f == frame[d]
    IN  (f.pc = "done" /\ StartPc(f.scanner, Entries(d)) = "seq") =>
           /\ ~f.ret.Error
           /\ \A k \in 1..Len(Entries(d)) :
                 ChildScanFails(Entries(d)[k]) =>
                    \A j \in 1..Len(f.ret.Entry.Children) :
                       f.ret.Entry.Children[j].Name # Entries(d)[k].name

\* C26: in the sequential scanner a failure on one child never aborts its
\* siblings: a child whose recursive scan returns an error adds its stat
\* size to the directory's skipped total and is left out of Children, the
\* remaining entries are still scanned one at a time in listing order, and
\* the directory's own scan returns no error.
C26_SequentialGoesOn == []C26_State /\ [][C26_Step]_vars

\* the scan of x has failed and is booked; the loop is about to scan y
C26_Witness ==
  /\ fs = FS_Skip
  /\ frame[1].pc = "seq"
  /\ frame[1].i = 2
  /\ frame[1].skipped = 4096
  /\ frame[1].children = <<>>

(* ------------------------------------------------------------------ *)
(* C27                                                                 *)
(* ------------------------------------------------------------------ *)

\* the main goroutine of the parallel scanner takes a result off resultChan
ParCollects(d) ==
  /\ frame[d].pc = "collect"
  /\ frame'[d].pc = "collect"
  /\ Len(frame'[d].resultChan) < Len(frame[d].resultChan)

C27_Step ==
  \A d \in DirIds :
    ParCollects(d) =>
      LET f == frame[d]
          r == Head(f.resultChan)
      IN  IF r.Error
          THEN /\ frame'[d].totalSize = f.totalSize
               /\ frame'[d].skipped = f.skipped
               /\ frame'[d].children = f.children
          ELSE /\ frame'[d].totalSize = f.totalSize + r.Entry.Size
               /\ frame'[d].skipped = f.skipped + r.Skipped
               /\ frame'[d].children = Append(f.children, r.Entry)

\* /root of FS_Par: the file g (50 bytes) vanishes before its scan
C27_State ==
  (Returned /\ fs = FS_Par) =>
     /\ call.ret.Skipped = 0
     /\ Root.Size = 100 + 300 + 300 + 200
     /\ \A j \in 1..Len(Root.Children) : Root.Children[j].Name # "g"

\* C27: in the parallel scanner a child result whose error is non-nil
\* contributes 0 to the parent's Size and 0 to the parent's skipped total
\* and is not added to Children, while every error-free result adds its Size
\* and its skipped count to the parent's totals.
C27_ParallelErrorIsZero == []C27_State /\ [][C27_Step]_vars

\* the failed result of g is the next the main goroutine takes off the
\* channel
C27_Witness ==
  /\ fs = FS_Par
  /\ frame[1].pc = "collect"
  /\ frame[1].resultChan # <<>>
  /\ frame[1].resultChan[1].Error
  /\ frame[1].children # <<>>

(* ------------------------------------------------------------------ *)
(* C28                                                                 *)
(* ------------------------------------------------------------------ *)

\* the main goroutine of the batched scanner takes a result off
\* dirResultChan
SmallCollects(d) ==
  /\ frame[d].pc = "dirs"
  /\ frame'[d].pc = "dirs"
  /\ Len(frame'[d].resultChan) < Len(frame[d].resultChan)

\* C28: in the batched small-file scanner a child subdirectory whose scan
\* fails contributes an estimated stat size to the parent's skipped total,
\* like the sequential scanner: when the collector takes a failed result,
\* skipped grows by the size Lstat reported for that subdirectory.
C28_BatchedBooksFailedChild ==
  [][\A d \in DirIds :
       (SmallCollects(d) /\ Head(frame[d].resultChan).Error) =>
          frame'[d].skipped =
            frame[d].skipped + EntryAt(fs, Head(frame[d].resultChan).Entry.Path).size]_vars

(* ------------------------------------------------------------------ *)
(* C29                                                                 *)
(* ------------------------------------------------------------------ *)

\* the listed entry becomes a child of the directory: it is no symlink,
\* its stat succeeds and, where ScanDir is called on it, the call returns no
\* error (a batch goroutine only stats its files)
BecomesChild(e, scanner) ==
  /\ e.kind # "symlink"
  /\ e.lstat # "err"
  /\ e.lstat = "gone" => (scanner = "batched" /\ e.kind # "dir")

\* C29: in all three scanners the Children of a returned directory entry
\* are in one-to-one correspondence with the directory's listed entries
\* that are not symlinks, whose stat succeeded and whose scan returned no
\* error: each such entry appears exactly once and nothing else appears.
C29_ChildrenMatchListing ==
  \A d \in DirIds :
    frame[d].pc = "done" =>
      LET es == Entries(d)
          cs == frame[d].ret.Entry.Children
          kept == {k \in 1..Len(es) : BecomesChild(es[k], frame[d].scanner)}
      IN  /\ Len(cs) = Cardinality(kept)
          /\ {cs[j].Path : j \in 1..Len(cs)} = {Join(frame[d].path, es[k].name) : k \in kept}
          /\ \A j \in 1..Len(cs) : cs[j].Name = Base(cs[j].Path)

\* the batched scanner has returned the 101 entries of FS_Small without
\* the two symlinks, the file that cannot be stat'd and the subdirectory
\* that vanished
C29_Witness ==
  /\ fs = FS_Small
  /\ frame[1].pc = "done"
  /\ frame[1].scanner = "batched"
  /\ Len(frame[1].ret.Entry.Children) = 97

(* ------------------------------------------------------------------ *)
(* C30                                                                 *)
(* ------------------------------------------------------------------ *)

\* a tree without the order of its children (names are unique in a listing)
RECURSIVE Unordered(_)
Unordered(t) ==
  [Path |-> t.Path, Name |-> t.Name, Size |-> t.Size,
   Children |-> {Unordered(t.Children[j]) : j \in 1..Len(t.Children)}]

\* what scanDirSequential returns for the directory of a frame
SequentialResult(d) ==
  SeqReturn(frame[d].path,
            SeqLoop(fs, d, frame[d].path, 1, Len(fs.dirs[d].entries))).res

\* C30: for the same directory contents and no stat or list failures, the
\* sequential, parallel and batched scanners return the same Size, the same
\* skipped total and the same multiset of Children, for every interleaving
\* of the workers; only the order of equal-sized children may differ.
C30_ScannersAgree ==
  \A d \in DirIds :
    (frame[d].pc = "done" /\ Clean(fs)) =>
       LET got == frame[d].ret
           seq == SequentialResult(d)
       IN  /\ got.Error = seq.Error
           /\ got.Skipped = seq.Skipped
           /\ got.Entry.Size = seq.Entry.Size
           /\ Len(got.Entry.Children) = Len(seq.Entry.Children)
           /\ Unordered(got.Entry) = Unordered(seq.Entry)
           /\ SortedBySize(got.Entry.Children)

\* the batched scanner has returned on a tree without failures: 99 children
\* for 101 entries, the subdirectory d2 with its one file the smallest
C30_Witness ==
  /\ Clean(fs)
  /\ frame[1].pc = "done"
  /\ frame[1].scanner = "batched"
  /\ Len(frame[1].ret.Entry.Children) = 99
  /\ frame[1].ret.Entry.Children[99].Name = "d2"
  /\ Len(frame[1].ret.Entry.Children[99].Children) = 1

(* ------------------------------------------------------------------ *)
(* The progress counter                                                *)
(* ------------------------------------------------------------------ *)

\* C31: the scan starts with processedSize 0 and is the only scan running;
\* when ScanDir returns without error processedSize equals the Size of the
\* returned root: every byte counted in the tree was added to the progress
\* counter exactly once, under every scanner and interleaving
C31_ProcessedIsRootSize ==
  (Returned /\ ~call.ret.Error) => processedSize = Root.Size

(* ------------------------------------------------------------------ *)
(* The worker pool of scanDirParallel                                  *)
(* ------------------------------------------------------------------ *)

\* scanDirParallel has started its workers on the directory
PoolStarted(d) == frame[d].scanner = "parallel" /\ frame[d].pc = "produce"

\* C32: the parallel scanner starts min(24, 3 x CPU count) workers on a
\* directory of at most 1000 entries and min(24, 2 x CPU count) workers on a
\* directory of more than 1000 entries
C32_WorkerCount ==
  \A d \in DirIds :
     PoolStarted(d) =>
        frame[d].workers = IF Len(Entries(d)) <= 1000
                           THEN Min(24, 3 * numCPU)
                           ELSE Min(24, 2 * numCPU)

\* a pool on 1001 entries and 13 CPUs: 26 workers cut to 24
C32_Witness ==
  /\ PoolStarted(fs.root.dir)
  /\ Len(Entries(fs.root.dir)) = 1001
  /\ numCPU = 13
  /\ frame[fs.root.dir].workers = 24

(* ------------------------------------------------------------------ *)
(* The semaphores and the batches of scanSmallFileDir                  *)
(* ------------------------------------------------------------------ *)

\* C33: in the batched scanner, at any moment at most 2 x CPU count batch
\* goroutines are processing file batches and at most CPU count ScanDir calls
\* on subdirectories of the directory are executing
C33_BatchedSemaphores ==
  \A d \in DirIds :
     frame[d].scanner = "batched" =>
        /\ Cardinality(frame[d].batchRunning) <= 2 * numCPU
        /\ Cardinality(frame[d].dirRunning) <= numCPU

\* both semaphores are full: two of three batches are still being processed
\* on one CPU, one subdirectory is being scanned and the other one waits
C33_Witness ==
  LET f == frame[fs.root.dir]
  IN  /\ f.scanner = "batched"
      /\ Len(f.fileBatches) > 2 * numCPU
      /\ Cardinality(f.batchRunning) = 2 * numCPU
      /\ Cardinality(f.dirRunning) = numCPU
      /\ \E k \in f.dirPending : ~ReturnsAtOnce(Entries(fs.root.dir)[k])

\* the batches one after the other, from batch b on
RECURSIVE BatchesFrom(_, _)
BatchesFrom(bs, b) == IF b > Len(bs) THEN <<>> ELSE bs[b] \o BatchesFrom(bs, b + 1)

\* the bytes of the files of a batch that can be stat'd and are no symlinks
BatchBytes(es, batch) ==
  SumSizes([j \in 1..Len(batch) |->
              [Size |-> IF es[batch[j]].kind = "file" /\ es[batch[j]].lstat = "ok"
                        THEN es[batch[j]].size ELSE 0]])

\* the batches whose goroutine has finished, as a sequence
FinishedBatches(f) ==
  SelectSeq([b \in 1..Len(f.fileBatches) |-> b],
            LAMBDA b : b < f.i /\ b \notin f.batchRunning)

\* the names of the subdirectories in a listing
DirNames(es) == {es[k].name : k \in {j \in 1..Len(es) : es[j].kind = "dir"}}

\* the Size of the children that came from dirResultChan
CollectedBytes(f, dirNames) ==
  SumSizes(SelectSeq(f.children, LAMBDA c : c.Name \in dirNames))

\* C34: the batched scanner cuts the entries of the directory that are not
\* directories into batches: every such entry is in exactly one batch (the
\* batches one after the other are the list of these entries), every batch
\* but the last holds exactly 200 of them, the last holds 1 to 200, and the
\* directory total holds the subtotal of every finished batch exactly once
C34_Batches ==
  \A d \in DirIds :
     frame[d].scanner = "batched" =>
        LET f == frame[d]
            es == Entries(d)
            bs == f.fileBatches
            fin == FinishedBatches(f)
        IN  /\ BatchesFrom(bs, 1) = regularFiles(es)
            /\ \A b \in 1..(Len(bs) - 1) : Len(bs[b]) = 200
            /\ Len(bs) > 0 => Len(bs[Len(bs)]) \in 1..200
            /\ \A dirNames \in {DirNames(es)} :
                  f.pc # "done" =>
                     f.totalSize =
                        SumSizes([j \in 1..Len(fin) |-> [Size |-> BatchBytes(es, bs[fin[j]])]])
                          + CollectedBytes(f, dirNames)

\* 401 files in three batches, the last of one file; the scanner has finished
\* and the total is the bytes of the files and of the two subdirectories
C34_Witness ==
  LET f == frame[fs.root.dir]
  IN  /\ f.scanner = "batched"
      /\ f.pc = "done"
      /\ Len(f.fileBatches) = 3
      /\ Len(f.fileBatches[3]) = 1
      /\ f.ret.Entry.Size = FileBytes(Entries(fs.root.dir)) - 400 + 12 + 13

(* ------------------------------------------------------------------ *)
(* The order of the work items of scanDirParallel                      *)
(* ------------------------------------------------------------------ *)

\* the entries the main goroutine has not come to yet
NotProduced(d) ==
  IF frame[d].pc = "produce"
  THEN {ProduceOrder(Entries(d))[j] :
          j \in frame[d].i..Len(ProduceOrder(Entries(d)))}
  ELSE {}

\* the entries whose work item waits in the queue
Queued(d) == {frame[d].workQueue[j] : j \in 1..Len(frame[d].workQueue)}

\* C35: in the parallel scanner every entry that is not a directory is put in
\* the work queue before any subdirectory, and the workers take the items in
\* that order: in the queue no subdirectory stands before a file, and while
\* a worker holds a subdirectory no file is left to be queued or dequeued
C35_FilesBeforeDirectories ==
  \A d \in DirIds :
     (frame[d].scanner = "parallel" /\ frame[d].pc \in {"produce", "collect"}) =>
        LET f == frame[d]
            es == Entries(d)
        IN  /\ \A i, j \in 1..Len(f.workQueue) :
                  (i < j /\ es[f.workQueue[i]].kind = "dir")
                     => es[f.workQueue[j]].kind = "dir"
            /\ (\E k \in f.busy \cup Queued(d) : es[k].kind = "dir")
                  => \A k \in NotProduced(d) : es[k].kind = "dir"
            /\ (\E k \in f.busy : es[k].kind = "dir")
                  => \A k \in Queued(d) : es[k].kind = "dir"

\* a worker scans a subdirectory while another still holds a file that the
\* listing has after that subdirectory
C35_Witness ==
  \E d \in DirIds :
     /\ frame[d].scanner = "parallel"
     /\ frame[d].pc \in {"produce", "collect"}
     /\ \E k1, k2 \in frame[d].busy :
          /\ k1 < k2
          /\ Entries(d)[k1].kind = "dir"
          /\ ~ReturnsAtOnce(Entries(d)[k1])
          /\ Entries(d)[k2].kind = "file"

(* ------------------------------------------------------------------ *)
(* The sample of checkSmallFileDirectory                               *)
(* ------------------------------------------------------------------ *)

\* ScanDir has classified the listing of the root, of more than 100 entries
Classified == call.pc = "running" /\ Len(Entries(fs.root.dir)) > 100

\* the entry at index floor(i * n / 20) of the listing, indices from 0
SampledEntry(i) ==
  Entries(fs.root.dir)[((i * Len(Entries(fs.root.dir))) \div 20) + 1]

\* the sampled entries that are no directory and whose stat gives a size
\* below 32768 bytes
SampledQualifying ==
  {i \in 0..19 : /\ SampledEntry(i).kind # "dir"
                 /\ SampledEntry(i).lstat # "err"
                 /\ SampledEntry(i).size < 32768}

\* the sampled entries whose stat fails
SampledFailing ==
  {i \in 0..19 : SampledEntry(i).kind # "dir" /\ SampledEntry(i).lstat = "err"}

\* C36: for a listing of n > 100 entries the classifier inspects exactly 20
\* entries, at the indices floor(i * n / 20) for i = 0..19, which are within
\* the listing and pairwise distinct, and it returns true exactly when
\* strictly more than 75% of the sampled entries are non-directories whose
\* stat size is below 32768 bytes
C36_Sample ==
  Classified =>
    LET es == Entries(fs.root.dir)
        n == Len(es)
    IN  /\ SampleSize(es) = 20
        /\ \A i \in 0..19 : SampleIndex(es, i) = (i * n) \div 20
        /\ \A i \in 0..19 : SampleIndex(es, i) \in 0..(n - 1)
        /\ \A i, j \in 0..19 : i # j => SampleIndex(es, i) # SampleIndex(es, j)
        /\ ChoseBatched <=> 4 * Cardinality(SampledQualifying) > 3 * 20

\* 139 entries, large files wherever the sample does not look and in four
\* sampled places: 16 of the 20 sampled entries are small, the batched
\* scanner is chosen
C36_Witness ==
  /\ Classified
  /\ Len(Entries(fs.root.dir)) = 139
  /\ Cardinality(SampledQualifying) = 16
  /\ \E k \in 1..139 : ~IsSmall(Entries(fs.root.dir)[k]) /\ Entries(fs.root.dir)[k].kind = "file"
  /\ Cardinality({k \in 1..139 : IsSmall(Entries(fs.root.dir)[k])}) = 16
  /\ ChoseBatched

\* C37: sampled entries whose stat fails are left out of the sample: they
\* count neither as small nor toward the total the 75% are taken of, so the
\* classifier returns true exactly when more than 75% of the sampled entries
\* that could be stat'd are small
C37_FailedStatExcluded ==
  Classified =>
    (ChoseBatched <=>
       4 * Cardinality(SampledQualifying) > 3 * (20 - Cardinality(SampledFailing)))

(* ------------------------------------------------------------------ *)
(* The keys of the cache                                               *)
(* ------------------------------------------------------------------ *)

\* q is a path below p
Below(q, p) == Len(q) > Len(p) /\ SubSeq(q, 1, Len(p)) = p

C38_Step ==
  \A g \in ScanIds :
     /\ StoresStep(g) =>
           /\ DOMAIN dirCache' = (DOMAIN dirCache) \cup {scans[g].path}
           /\ \A q \in (DOMAIN dirCache) \ {scans[g].path} : dirCache'[q] = dirCache[q]
           /\ \A q \in (DOMAIN dirCache') \ (DOMAIN dirCache) : ~Below(q, scans[g].path)
     /\ (/\ scans[g].pc \in {"get", "cachedscan"}
         /\ scans'[g].pc # scans[g].pc
         /\ scans[g].path \notin DOMAIN dirCache
         /\ \E p \in DOMAIN dirCache : Below(scans[g].path, p))
           => scans'[g].pc = IF scans[g].pc = "get" THEN "cachedscan" ELSE "scanning"

\* C38: a CachedScanDir(path) that scans after a cache miss and succeeds
\* changes the cache at the key path only: every other key keeps its value
\* and no key is added for a path below path, so that a later request for a
\* subdirectory of a cached directory misses the cache and scans
C38_OnlyThePathIsCached == [][C38_Step]_vars

\* /root is in the cache, /root/c is not, and a scan goroutine traverses
\* /root/c after it has missed the cache
C38_Witness ==
  \E g \in ScanIds :
     /\ scans[g].pc = "scanning"
     /\ scans[g].path = <<"root", "c">>
     /\ RootNodePath \in DOMAIN dirCache
     /\ Len(dirCache[RootNodePath].Children) = 3
     /\ scans[g].path \notin DOMAIN dirCache

(* ------------------------------------------------------------------ *)
(* What the command "scan" prints                                      *)
(* ------------------------------------------------------------------ *)

RECURSIVE NodesAtLevel(_, _), ChildrenAtLevel(_, _, _)

\* the entries at level l of the tree t (t itself is level 0), from the
\* first child to the last
NodesAtLevel(t, l) ==
  IF l = 0 THEN <<t>> ELSE ChildrenAtLevel(t.Children, 1, l - 1)

ChildrenAtLevel(cs, j, l) ==
  IF j > Len(cs) THEN <<>>
  ELSE NodesAtLevel(cs[j], l) \o ChildrenAtLevel(cs, j + 1, l)

\* the lines of the entries, and those indented for level l
EntryLines == SelectSeq(stdout, LAMBDA ln : ln.line = "entry")

LinesAtLevel(l) == SelectSeq(EntryLines, LAMBDA ln : ln.indent = 2 * l)

\* the bytes of all files at and below an entry of the file system, at every
\* level, that a scan can reach
RECURSIVE BytesBelow(_, _)
BytesBelow(f, e) ==
  IF e.lstat # "ok" \/ e.kind = "symlink" THEN 0
  ELSE IF e.kind = "file" THEN e.size
  ELSE IF f.dirs[e.dir].readdir = "err" THEN 0
  ELSE SumSizes([k \in 1..Len(f.dirs[e.dir].entries) |->
                   [Size |-> BytesBelow(f, f.dirs[e.dir].entries[k])]])

\* C39: the command "scan" with depth d prints exactly the entries at the
\* levels 0 to d - 1 of the tree, the root being level 0, and nothing
\* deeper, and the sizes it prints are those of the traversal of all levels
C39_DisplayDepth ==
  call.pc = "printed" =>
    LET d == call.maxDepth
        root == call.ret.Entry
    IN  /\ \A l \in 0..(d - 1) :
              [j \in 1..Len(LinesAtLevel(l)) |->
                 <<LinesAtLevel(l)[j].name, LinesAtLevel(l)[j].size>>]
                = [j \in 1..Len(NodesAtLevel(root, l)) |->
                     <<NodesAtLevel(root, l)[j].Name,
                       formatSize(NodesAtLevel(root, l)[j].Size)>>]
        /\ \A j \in 1..Len(EntryLines) : EntryLines[j].indent < 2 * d
        /\ \A t \in Nodes(root) : t.Size = BytesBelow(fs, EntryAt(fs, t.Path))

\* depth 2 on a tree of three levels: /root with its 750 bytes, a, and sub
\* with the 650 bytes of everything below it; subsub, b, c and d are in the
\* tree and are not printed
C39_Witness ==
  /\ call.pc = "printed"
  /\ call.maxDepth = 2
  /\ [j \in 1..Len(EntryLines) |->
        <<EntryLines[j].indent, EntryLines[j].name, EntryLines[j].size>>]
       = <<<<0, "root", [unit |-> "B", digits |-> <<750>>]>>,
           <<2, "a", [unit |-> "B", digits |-> <<100>>]>>,
           <<2, "sub", [unit |-> "B", digits |-> <<650>>]>>>>
  /\ Len(NodesAtLevel(call.ret.Entry, 2)) = 2
  /\ Len(NodesAtLevel(call.ret.Entry, 3)) = 2

====
